---- MODULE Spec2Model ----
(***************************************************************************)
(* Model of the aether_core engine: the GES-backed editing Timeline        *)
(* (engine/editing/timeline.rs), the engine Timeline of tracks and clips   *)
(* (engine/timeline.rs), the TimelineRenderer that composites frames from  *)
(* it with its ClipRenderers (engine/timeline_renderer.rs) and the         *)
(* VideoDecoder each of them owns (engine/video_decoder.rs).  Times are    *)
(* integer ticks; the output buffer of a frame is modelled byte by byte,   *)
(* its blend in single precision arithmetic.                               *)
(***************************************************************************)
EXTENDS Integers, Sequences, FiniteSets, TLC

\* ------------------------------------------------------------------------
\* Bounds of the model
\* ------------------------------------------------------------------------
\* cap on the number of entries of the editing Timeline's clips map
MaxClips == 2
\* horizon: calls that would place a clip's end beyond it are not issued
MaxEnd == 2
\* cap on the in_point a split may produce
MaxInPoint == 2
\* cap on the number of effects added to the clips of the editing Timeline
MaxEffects == 1

StartTimes == 0..MaxEnd
Durations == 1..MaxEnd
TrimDurations == 0..MaxEnd
InPoints == 0..1
Positions == 0..MaxEnd
\* horizon of the engine Timeline: its configured duration; clips are placed
\* inside it
MaxTime == 3
\* cap on the number of clips held by the engine Timeline's tracks together
MaxTrackClips == 3
\* last reading of the wall clock
MaxClock == 3
\* longest media file a decoder opens
MaxMedia == 3

\* editing::types::TrackType
TrackType == {"Video", "Audio"}
\* track types offered to add_clip: the editing Timeline only stores and
\* copies the type, no branch of it reads it
EdInputTypes == {"Video"}
\* effect types offered to add_effect
EffectTypes == {"agingtv"}

VARIABLES
    \* editing::Timeline
    ges_timeline,   \* Option<ges::Timeline>: TRUE when Some
    clips,          \* HashMap<String, TimelineClip>, key "clip_n" kept as n
    duration,       \* i64
    ed_ret,         \* Result returned by the last editing call
    \* history
    ed_op           \* name of the last editing call

VARIABLES
    \* engine::Timeline
    tracks,          \* HashMap<String, Track>: id -> [clips, is_muted]
    current_time,    \* f64, in ticks
    config_duration, \* TimelineConfig::duration
    tl_ret           \* Result returned by the last engine Timeline call

VARIABLES
    \* engine::TimelineState and the clock it reads
    is_playing,       \* TimelineState::is_playing
    playback_speed,   \* TimelineState::playback_speed
    last_update_time, \* TimelineState::last_update_time
    now,              \* std::time::Instant::now(), in ticks
    \* history
    pl_ref,           \* clock reading at the last play() or update() call
    pl_op             \* name of the last call on the engine Timeline

VARIABLES
    \* TimelineRenderer
    is_initialized,       \* TimelineRenderer::is_initialized
    renderer_initialized, \* Renderer::is_initialized of the inner renderer
    clip_renderers,       \* HashMap<String, ClipRenderer>: clip id -> renderer
    frame_cache,          \* HashMap<f64, Frame>: timestamp -> frame
    timeline_lock,        \* holder of the Mutex<Timeline>: "free", "renderer"
    \* render_frame in progress
    rd_pc,                \* "idle", "layers", "seek", "decode"
    rd_time,              \* its argument
    rd_pending,           \* entries of active_clips not yet iterated
    rd_queue,             \* clips of the current entry not yet iterated
    rd_cur,               \* the clip whose ClipRenderer is being driven
    rd_layers,            \* frames composited onto frame_data so far
    rd_ret,               \* Result returned by the last TimelineRenderer call
    \* history
    rd_unchanged,         \* rd_ret is the frame of the last render_frame
                          \* call and no call has been made since
    rd_flipped            \* tracks whose is_muted changed since rd_ret,
                          \* the frame of the last render_frame call, was
                          \* returned

VARIABLES
    \* one ClipRenderer and the VideoDecoder it owns
    cr_in_point,              \* ClipRenderer::in_point
    cr_out_point,             \* ClipRenderer::out_point
    dec_is_initialized,       \* VideoDecoder::is_initialized
    dec_media_info,           \* VideoDecoder::media_info: its duration, or
                              \* NoMedia for None
    dec_streams,              \* the media of the file's streams, in file
                              \* order ("V", "A"): MediaInfo::video_streams
                              \* and audio_streams hold one entry for each
    dec_current_position,     \* VideoDecoder::current_position
    dec_current_video_stream, \* VideoDecoder::current_video_stream
    dec_current_audio_stream, \* VideoDecoder::current_audio_stream
    dec_format_context,       \* VideoDecoder::format_context is Some
    dec_video_codec_context,  \* VideoDecoder::video_codec_context is Some
    dec_audio_codec_context,  \* VideoDecoder::audio_codec_context is Some
    dec_sws_context,          \* VideoDecoder::sws_context is Some
    dec_cursor,               \* read position of the format context: the
                              \* tick of the next packet it yields
    dec_is_seeking,           \* DecoderState::is_seeking
    cr_ret,                   \* Result returned by the last ClipRenderer call
    \* history
    cr_op,                    \* name of the last ClipRenderer call
    close_run                 \* consecutive close() calls that end now, the
                              \* first made on an initialized decoder

VARIABLES
    \* TimelineRendererConfig and the output buffer of one render_frame
    config_width,     \* TimelineRendererConfig::width
    config_height,    \* TimelineRendererConfig::height
    background_color, \* TimelineRendererConfig::background_color
    frame_data,       \* render_frame's frame_data: Vec<u8>, <<>> before
                      \* the first render_frame
    \* history
    px_input,         \* the VideoFrame of the last composite_frame call
    px_layers,        \* composite_frame calls since frame_data was built
    px_op             \* the last step taken on frame_data

ed_vars == <<ges_timeline, clips, duration, ed_ret, ed_op>>
tl_vars == <<tracks, current_time, config_duration, tl_ret>>
cr_vars == <<cr_in_point, cr_out_point, dec_is_initialized, dec_media_info,
             dec_streams, dec_current_position, dec_current_video_stream,
             dec_current_audio_stream, dec_format_context,
             dec_video_codec_context, dec_audio_codec_context,
             dec_sws_context, dec_is_seeking, dec_cursor, cr_ret, cr_op,
             close_run>>
px_vars == <<config_width, config_height, background_color, frame_data,
             px_input, px_layers, px_op>>
rd_vars == <<is_initialized, renderer_initialized, clip_renderers, frame_cache,
             timeline_lock, rd_pc, rd_time, rd_pending, rd_queue, rd_cur,
             rd_layers, rd_ret, rd_unchanged, rd_flipped, cr_vars,
             px_vars>>
pl_vars == <<is_playing, playback_speed, last_update_time, now, pl_ref, pl_op>>
vars == <<ed_vars, tl_vars, rd_vars, pl_vars>>

\* ------------------------------------------------------------------------
\* editing::Timeline (engine/editing/timeline.rs)
\* ------------------------------------------------------------------------
Max(a, b) == IF a > b THEN a ELSE b

\* the id format!("clip_{}", self.clips.len()) yields
next_clip_id == Cardinality(DOMAIN clips)

\* a TimelineClip as add_clip and split_clip build it: effects is Vec::new();
\* an effect is kept by its name
TimelineClip(tt, st, d, ip) ==
    [track_type |-> tt, start_time |-> st, duration |-> d, in_point |-> ip,
     effects |-> <<>>]

clip_end(c) == c.start_time + c.duration

RECURSIVE MaxEndOver(_, _)
MaxEndOver(m, ids) ==
    IF ids = {} THEN 0
    ELSE LET i == CHOOSE x \in ids : TRUE
         IN Max(clip_end(m[i]), MaxEndOver(m, ids \ {i}))

\* update_duration: max over clips of start_time + duration, from 0
update_duration(m) == MaxEndOver(m, DOMAIN m)

MapPut(m, k, v) == [x \in DOMAIN m \cup {k} |-> IF x = k THEN v ELSE m[x]]
MapRemove(m, k) == [x \in DOMAIN m \ {k} |-> m[x]]

\* Result values: Err(variant), Ok(()), Ok(TimelineClip) (held by its id:
\* the clip itself is clips[id]) and Ok(String) (a clip id)
NoId == 0 - 1
Err(e) == [status |-> e, kind |-> "none", id |-> NoId]
OkUnit == [status |-> "Ok", kind |-> "unit", id |-> NoId]
OkClip(id) == [status |-> "Ok", kind |-> "clip", id |-> id]
OkId(id) == [status |-> "Ok", kind |-> "id", id |-> id]
\* Err(InvalidParameter("Split position {} is outside clip bounds"))
ErrBounds ==
    [status |-> "InvalidParameter", kind |-> "outside clip bounds", id |-> NoId]
\* Ok(TimelineEffect), held by the id of the clip it was pushed to
OkEffect(id) == [status |-> "Ok", kind |-> "effect", id |-> id]

EdInit ==
    /\ ges_timeline = FALSE
    /\ clips = <<>>
    /\ duration = 0
    /\ ed_ret = Err("None")
    /\ ed_op = "none"

\* set_ges_timeline: stores the timeline, then creates the first video and
\* audio track (GES calls that may fail; the track lists hold no clip data
\* and are not part of this model's state)
set_ges_timeline(ges_ok) ==
    /\ ges_timeline' = TRUE
    /\ ed_ret' = IF ges_ok THEN OkUnit ELSE Err("GstreamerError")
    /\ UNCHANGED <<clips, duration>>

add_clip(tt, st, d, ip, ges_ok) ==
    /\ next_clip_id < MaxClips
    /\ st + d <= MaxEnd
    /\ IF ~ges_timeline
       THEN /\ ed_ret' = Err("NotInitialized")
            /\ UNCHANGED <<clips, duration>>
       ELSE IF ~ges_ok
       THEN /\ ed_ret' = Err("GstreamerError")
            /\ UNCHANGED <<clips, duration>>
       ELSE /\ clips' = MapPut(clips, next_clip_id, TimelineClip(tt, st, d, ip))
            /\ duration' = IF st + d > duration THEN st + d ELSE duration
            /\ ed_ret' = OkClip(next_clip_id)
    /\ UNCHANGED ges_timeline

\* mutant: the move also writes the new start into in_point
move_clip_sets_in_point(id, new_start_time) ==
    /\ id \in DOMAIN clips => new_start_time + clips[id].duration <= MaxEnd
    /\ IF id \notin DOMAIN clips
       THEN /\ ed_ret' = Err("InvalidParameter")
            /\ UNCHANGED <<clips, duration>>
       ELSE /\ clips' = [clips EXCEPT ![id].start_time = new_start_time,
                                      ![id].in_point = new_start_time]
            /\ duration' = IF new_start_time + clips[id].duration > duration
                           THEN new_start_time + clips[id].duration
                           ELSE duration
            /\ ed_ret' = OkUnit
    /\ UNCHANGED ges_timeline

move_clip(id, new_start_time) ==
    /\ id \in DOMAIN clips => new_start_time + clips[id].duration <= MaxEnd
    /\ IF id \notin DOMAIN clips
       THEN /\ ed_ret' = Err("InvalidParameter")
            /\ UNCHANGED <<clips, duration>>
       ELSE /\ clips' = [clips EXCEPT ![id].start_time = new_start_time]
            /\ duration' = IF new_start_time + clips[id].duration > duration
                           THEN new_start_time + clips[id].duration
                           ELSE duration
            /\ ed_ret' = OkUnit
    /\ UNCHANGED ges_timeline

\* mutant: the trim cuts at the start, moving start_time by what it removes
trim_clip_from_start(id, new_duration) ==
    /\ id \in DOMAIN clips => clips[id].start_time + new_duration <= MaxEnd
    /\ IF id \notin DOMAIN clips
       THEN /\ ed_ret' = Err("InvalidParameter")
            /\ UNCHANGED <<clips, duration>>
       ELSE /\ clips' = [clips EXCEPT
                            ![id].start_time = clip_end(clips[id]) - new_duration,
                            ![id].duration = new_duration]
            /\ duration' = update_duration(clips')
            /\ ed_ret' = OkUnit
    /\ UNCHANGED ges_timeline

trim_clip(id, new_duration) ==
    /\ id \in DOMAIN clips => clips[id].start_time + new_duration <= MaxEnd
    /\ IF id \notin DOMAIN clips
       THEN /\ ed_ret' = Err("InvalidParameter")
            /\ UNCHANGED <<clips, duration>>
       ELSE /\ clips' = [clips EXCEPT ![id].duration = new_duration]
            /\ duration' = update_duration(clips')
            /\ ed_ret' = OkUnit
    /\ UNCHANGED ges_timeline

\* the clips map after a split that passed its checks: the original shrinks
\* in place, then the right clip is inserted under the next id
split_result(m, id, position) ==
    LET clip == m[id]
        relative_position == position - clip.start_time
        right == TimelineClip(clip.track_type, position,
                              clip.duration - relative_position,
                              clip.in_point + relative_position)
        shrunk == [m EXCEPT ![id].duration = relative_position]
    IN MapPut(shrunk, Cardinality(DOMAIN m), right)

\* mutant: the bounds test lets a position on the clip's start or end pass
split_clip_open_bounds(id, position, ges_ok) ==
    /\ next_clip_id < MaxClips
    /\ id \in DOMAIN clips =>
          clips[id].in_point + (position - clips[id].start_time) <= MaxInPoint
    /\ IF id \notin DOMAIN clips
       THEN /\ ed_ret' = Err("InvalidParameter")
            /\ UNCHANGED clips
       ELSE IF \/ position < clips[id].start_time
               \/ position > clips[id].start_time + clips[id].duration
       THEN /\ ed_ret' = ErrBounds
            /\ UNCHANGED clips
       ELSE IF ~ges_ok
       THEN /\ ed_ret' = Err("GstreamerError")
            /\ UNCHANGED clips
       ELSE /\ clips' = split_result(clips, id, position)
            /\ ed_ret' = OkId(next_clip_id)
    /\ UNCHANGED <<ges_timeline, duration>>

split_clip(id, position, ges_ok) ==
    /\ next_clip_id < MaxClips
    /\ id \in DOMAIN clips =>
          clips[id].in_point + (position - clips[id].start_time) <= MaxInPoint
    /\ IF id \notin DOMAIN clips
       THEN /\ ed_ret' = Err("InvalidParameter")
            /\ UNCHANGED clips
       ELSE IF \/ position <= clips[id].start_time
               \/ position >= clips[id].start_time + clips[id].duration
       THEN /\ ed_ret' = ErrBounds
            /\ UNCHANGED clips
       ELSE IF ~ges_ok
       THEN /\ ed_ret' = Err("GstreamerError")
            /\ UNCHANGED clips
       ELSE /\ clips' = split_result(clips, id, position)
            /\ ed_ret' = OkId(next_clip_id)
    /\ UNCHANGED <<ges_timeline, duration>>

RECURSIVE SumEffects(_, _)
SumEffects(m, ids) ==
    IF ids = {} THEN 0
    ELSE LET i == CHOOSE x \in ids : TRUE
         IN Len(m[i].effects) + SumEffects(m, ids \ {i})

\* number of effects in the timeline (bounds the model only)
total_effects == SumEffects(clips, DOMAIN clips)

add_effect(id, effect_type, ges_ok) ==
    /\ total_effects < MaxEffects
    /\ IF id \notin DOMAIN clips
       THEN /\ ed_ret' = Err("InvalidParameter")
            /\ UNCHANGED clips
       ELSE IF ~ges_ok
       THEN /\ ed_ret' = Err("GstreamerError")
            /\ UNCHANGED clips
       ELSE /\ clips' = [clips EXCEPT ![id].effects = Append(@, effect_type)]
            /\ ed_ret' = OkEffect(id)
    /\ UNCHANGED <<ges_timeline, duration>>

\* mutant: the removal leaves the timeline duration as it was
remove_clip_keeps_duration(id, ges_ok) ==
    /\ IF id \notin DOMAIN clips
       THEN /\ ed_ret' = Err("InvalidParameter")
            /\ UNCHANGED <<clips, duration>>
       ELSE IF ~ges_ok
       THEN /\ ed_ret' = Err("GstreamerError")
            /\ UNCHANGED <<clips, duration>>
       ELSE /\ clips' = MapRemove(clips, id)
            /\ UNCHANGED duration
            /\ ed_ret' = OkUnit
    /\ UNCHANGED ges_timeline

remove_clip(id, ges_ok) ==
    /\ IF id \notin DOMAIN clips
       THEN /\ ed_ret' = Err("InvalidParameter")
            /\ UNCHANGED <<clips, duration>>
       ELSE IF ~ges_ok
       THEN /\ ed_ret' = Err("GstreamerError")
            /\ UNCHANGED <<clips, duration>>
       ELSE /\ clips' = MapRemove(clips, id)
            /\ duration' = update_duration(clips')
            /\ ed_ret' = OkUnit
    /\ UNCHANGED ges_timeline

ClipIds == 0..MaxClips

EdSetGesTimeline ==
    /\ \E ok \in BOOLEAN : set_ges_timeline(ok)
    /\ ed_op' = "set_ges_timeline"
    /\ UNCHANGED <<tl_vars, rd_vars, pl_vars>>
EdAddClip ==
    /\ \E tt \in EdInputTypes, st \in StartTimes, d \in Durations, ip \in InPoints, ok \in BOOLEAN : add_clip(tt, st, d, ip, ok)
    /\ ed_op' = "add_clip"
    /\ UNCHANGED <<tl_vars, rd_vars, pl_vars>>
EdMoveClip ==
    /\ \E id \in ClipIds, st \in StartTimes : move_clip(id, st)
    /\ ed_op' = "move_clip"
    /\ UNCHANGED <<tl_vars, rd_vars, pl_vars>>
EdTrimClip ==
    /\ \E id \in ClipIds, d \in TrimDurations : trim_clip(id, d)
    /\ ed_op' = "trim_clip"
    /\ UNCHANGED <<tl_vars, rd_vars, pl_vars>>
EdSplitClip ==
    /\ \E id \in ClipIds, p \in Positions, ok \in BOOLEAN : split_clip(id, p, ok)
    /\ ed_op' = "split_clip"
    /\ UNCHANGED <<tl_vars, rd_vars, pl_vars>>
EdRemoveClip ==
    /\ \E id \in ClipIds, ok \in BOOLEAN : remove_clip(id, ok)
    /\ ed_op' = "remove_clip"
    /\ UNCHANGED <<tl_vars, rd_vars, pl_vars>>

EdNext ==
    \/ EdSetGesTimeline
    \/ EdAddClip
    \/ EdMoveClip
    \/ EdTrimClip
    \/ EdSplitClip
    \/ EdRemoveClip
\* the cut specification: clips added at in_point 0 are moved, split and
\* removed
CtInPoints == {0}

CtSetGesTimeline ==
    /\ \E ok \in BOOLEAN : set_ges_timeline(ok)
    /\ ed_op' = "set_ges_timeline"
    /\ UNCHANGED <<tl_vars, rd_vars, pl_vars>>
CtAddClip ==
    /\ \E tt \in EdInputTypes, st \in StartTimes, d \in Durations, ip \in CtInPoints : add_clip(tt, st, d, ip, TRUE)
    /\ ed_op' = "add_clip"
    /\ UNCHANGED <<tl_vars, rd_vars, pl_vars>>
CtMoveClip ==
    /\ \E id \in ClipIds, st \in StartTimes : move_clip(id, st)
    /\ ed_op' = "move_clip"
    /\ UNCHANGED <<tl_vars, rd_vars, pl_vars>>
CtSplitClip ==
    /\ \E id \in ClipIds, p \in Positions, ok \in BOOLEAN : split_clip(id, p, ok)
    /\ ed_op' = "split_clip"
    /\ UNCHANGED <<tl_vars, rd_vars, pl_vars>>
CtRemoveClip ==
    /\ \E id \in ClipIds, ok \in BOOLEAN : remove_clip(id, ok)
    /\ ed_op' = "remove_clip"
    /\ UNCHANGED <<tl_vars, rd_vars, pl_vars>>

CtNext ==
    \/ CtSetGesTimeline
    \/ CtAddClip
    \/ CtMoveClip
    \/ CtSplitClip
    \/ CtRemoveClip

\* the effect specification: clips that carry effects are added with one
\* in_point, then moved and trimmed
EfInPoints == {1}

EfSetGesTimeline ==
    /\ \E ok \in BOOLEAN : set_ges_timeline(ok)
    /\ ed_op' = "set_ges_timeline"
    /\ UNCHANGED <<tl_vars, rd_vars, pl_vars>>
EfAddClip ==
    /\ \E tt \in EdInputTypes, st \in StartTimes, d \in Durations, ip \in EfInPoints : add_clip(tt, st, d, ip, TRUE)
    /\ ed_op' = "add_clip"
    /\ UNCHANGED <<tl_vars, rd_vars, pl_vars>>
EfAddEffect ==
    /\ \E id \in ClipIds, e \in EffectTypes, ok \in BOOLEAN : add_effect(id, e, ok)
    /\ ed_op' = "add_effect"
    /\ UNCHANGED <<tl_vars, rd_vars, pl_vars>>
EfMoveClip ==
    /\ \E id \in ClipIds, st \in StartTimes : move_clip(id, st)
    /\ ed_op' = "move_clip"
    /\ UNCHANGED <<tl_vars, rd_vars, pl_vars>>
EfTrimClip ==
    /\ \E id \in ClipIds, d \in TrimDurations : trim_clip(id, d)
    /\ ed_op' = "trim_clip"
    /\ UNCHANGED <<tl_vars, rd_vars, pl_vars>>

EfNext ==
    \/ EfSetGesTimeline
    \/ EfAddClip
    \/ EfAddEffect
    \/ EfMoveClip
    \/ EfTrimClip

\* ------------------------------------------------------------------------
\* engine::Timeline (engine/timeline.rs)
\* ------------------------------------------------------------------------
TrackIds == {"t1", "t2"}
NoSource == "none"

Clip(id, ct, st, d, src) ==
    [id |-> id, clip_type |-> ct, start_time |-> st, duration |-> d,
     source_path |-> src]

\* Clip::end_time
end_time(c) == c.start_time + c.duration

\* mutant: the end of the interval counts as inside
contains_time_closed(c, time) == time >= c.start_time /\ time <= end_time(c)

\* Clip::contains_time
contains_time(c, time) == time >= c.start_time /\ time < end_time(c)

\* the overlap test of Track::add_clip for one existing clip
add_clip_conflict(existing_clip, clip) ==
    /\ existing_clip.clip_type = clip.clip_type
    /\ \/ /\ clip.start_time >= existing_clip.start_time
          /\ clip.start_time < end_time(existing_clip)
       \/ /\ end_time(clip) > existing_clip.start_time
          /\ end_time(clip) <= end_time(existing_clip)

\* Track::add_clip returns Err(OperationError) for this track and clip
Track_add_clip_rejects(track, clip) ==
    \E i \in 1..Len(track.clips) : add_clip_conflict(track.clips[i], clip)

\* Track::clips_at_time
clips_at_time(track, time) ==
    SelectSeq(track.clips, LAMBDA c : contains_time(c, time))

\* Timeline::active_clips: the clips at current_time of every unmuted track
\* that has one
active_clips ==
    LET live == {t \in DOMAIN tracks :
                    /\ ~tracks[t].is_muted
                    /\ clips_at_time(tracks[t], current_time) # <<>>}
    IN [t \in live |-> clips_at_time(tracks[t], current_time)]

RECURSIVE SumLen(_, _)
SumLen(m, ids) ==
    IF ids = {} THEN 0
    ELSE LET t == CHOOSE x \in ids : TRUE
         IN Len(m[t].clips) + SumLen(m, ids \ {t})

\* number of clips in the timeline (bounds the model only)
total_clips == SumLen(tracks, DOMAIN tracks)

\* position of the first clip with this id, 0 when there is none
RECURSIVE position_from(_, _, _)
position_from(cs, clip_id, i) ==
    IF i > Len(cs) THEN 0
    ELSE IF cs[i].id = clip_id THEN i
    ELSE position_from(cs, clip_id, i + 1)

remove_at(cs, i) == SubSeq(cs, 1, i - 1) \o SubSeq(cs, i + 1, Len(cs))

TlInit ==
    /\ tracks = <<>>
    /\ current_time = 0
    /\ config_duration = MaxTime
    /\ tl_ret = Err("None")

\* Timeline::add_track with a Track::new(id, name)
add_track(track_id) ==
    /\ IF track_id \in DOMAIN tracks
       THEN /\ tl_ret' = Err("InvalidTrack")
            /\ UNCHANGED tracks
       ELSE /\ tracks' = MapPut(tracks, track_id,
                                [clips |-> <<>>, is_muted |-> FALSE])
            /\ tl_ret' = OkUnit
    /\ UNCHANGED <<current_time, config_duration>>

\* mutant: removing a track drops every track
remove_track_all(track_id) ==
    /\ IF track_id \in DOMAIN tracks
       THEN /\ tracks' = <<>>
            /\ tl_ret' = [status |-> "Ok", kind |-> "track", id |-> NoId]
       ELSE /\ tl_ret' = Err("InvalidTrack")
            /\ UNCHANGED tracks
    /\ UNCHANGED <<current_time, config_duration>>

\* Timeline::remove_track
remove_track(track_id) ==
    /\ IF track_id \in DOMAIN tracks
       THEN /\ tracks' = MapRemove(tracks, track_id)
            /\ tl_ret' = [status |-> "Ok", kind |-> "track", id |-> NoId]
       ELSE /\ tl_ret' = Err("InvalidTrack")
            /\ UNCHANGED tracks
    /\ UNCHANGED <<current_time, config_duration>>

add_clip_to_track(track_id, clip) ==
    /\ total_clips < MaxTrackClips
    /\ end_time(clip) <= MaxTime
    /\ IF track_id \notin DOMAIN tracks
       THEN /\ tl_ret' = Err("InvalidTrack")
            /\ UNCHANGED tracks
       ELSE IF Track_add_clip_rejects(tracks[track_id], clip)
       THEN /\ tl_ret' = Err("OperationError")
            /\ UNCHANGED tracks
       ELSE /\ tracks' = [tracks EXCEPT ![track_id].clips = Append(@, clip)]
            /\ tl_ret' = OkUnit
    /\ UNCHANGED <<current_time, config_duration>>

remove_clip_from_track(track_id, clip_id) ==
    /\ IF track_id \notin DOMAIN tracks
       THEN /\ tl_ret' = Err("InvalidTrack")
            /\ UNCHANGED tracks
       ELSE LET index == position_from(tracks[track_id].clips, clip_id, 1)
            IN IF index = 0
               THEN /\ tl_ret' = Err("InvalidClip")
                    /\ UNCHANGED tracks
               ELSE /\ tracks' = [tracks EXCEPT
                                    ![track_id].clips = remove_at(@, index)]
                    /\ tl_ret' = [status |-> "Ok", kind |-> "clip",
                                  id |-> NoId]
    /\ UNCHANGED <<current_time, config_duration>>

\* a caller sets the public field Track::is_muted through get_track_mut
set_muted(track_id, muted) ==
    /\ IF track_id \notin DOMAIN tracks
       THEN /\ tl_ret' = Err("InvalidTrack")
            /\ UNCHANGED tracks
       ELSE /\ tracks' = [tracks EXCEPT ![track_id].is_muted = muted]
            /\ tl_ret' = OkUnit
    /\ UNCHANGED <<current_time, config_duration>>

\* mutant: the end of the timeline counts as outside
seek_rejects_end(time) ==
    /\ IF time < 0 \/ time >= config_duration
       THEN /\ tl_ret' = Err("InvalidTime")
            /\ UNCHANGED current_time
       ELSE /\ current_time' = time
            /\ tl_ret' = OkUnit
    /\ UNCHANGED <<tracks, config_duration>>

seek(time) ==
    /\ IF time < 0 \/ time > config_duration
       THEN /\ tl_ret' = Err("InvalidTime")
            /\ UNCHANGED current_time
       ELSE /\ current_time' = time
            /\ tl_ret' = OkUnit
    /\ UNCHANGED <<tracks, config_duration>>

\* Ok(self.current_time) of update
OkTime(time) == [status |-> "Ok", kind |-> "time", id |-> time]

\* TimelineState as Timeline::new builds it; the clock starts at 0
PlInit ==
    /\ is_playing = FALSE
    /\ playback_speed = 1
    /\ last_update_time = 0
    /\ now = 0
    /\ pl_ref = 0
    /\ pl_op = "none"

play ==
    /\ is_playing' = TRUE
    /\ last_update_time' = now
    /\ UNCHANGED <<playback_speed, tracks, current_time, config_duration,
                   tl_ret>>

pause ==
    /\ is_playing' = FALSE
    /\ UNCHANGED <<playback_speed, last_update_time, tracks, current_time,
                   config_duration, tl_ret>>

\* mutant: set_playback_speed rejects negative speeds only
set_playback_speed_accepts_zero(speed) ==
    /\ IF speed < 0
       THEN /\ tl_ret' = Err("OperationError")
            /\ UNCHANGED playback_speed
       ELSE /\ playback_speed' = speed
            /\ tl_ret' = OkUnit
    /\ UNCHANGED <<is_playing, last_update_time, tracks, current_time,
                   config_duration>>

set_playback_speed(speed) ==
    /\ IF speed <= 0
       THEN /\ tl_ret' = Err("OperationError")
            /\ UNCHANGED playback_speed
       ELSE /\ playback_speed' = speed
            /\ tl_ret' = OkUnit
    /\ UNCHANGED <<is_playing, last_update_time, tracks, current_time,
                   config_duration>>

\* mutant: update does not store the clock reading it took
update_keeps_last_update_time ==
    /\ IF is_playing
       THEN LET elapsed == now - last_update_time
                advanced == current_time + elapsed * playback_speed
            IN /\ UNCHANGED last_update_time
               /\ IF advanced >= config_duration
                  THEN /\ current_time' = config_duration
                       /\ is_playing' = FALSE
                  ELSE /\ current_time' = advanced
                       /\ UNCHANGED is_playing
       ELSE UNCHANGED <<current_time, is_playing, last_update_time>>
    /\ tl_ret' = OkTime(current_time')
    /\ UNCHANGED <<playback_speed, tracks, config_duration>>

update ==
    /\ IF is_playing
       THEN LET elapsed == now - last_update_time
                advanced == current_time + elapsed * playback_speed
            IN /\ last_update_time' = now
               /\ IF advanced >= config_duration
                  THEN /\ current_time' = config_duration
                       /\ is_playing' = FALSE
                  ELSE /\ current_time' = advanced
                       /\ UNCHANGED is_playing
       ELSE UNCHANGED <<current_time, is_playing, last_update_time>>
    /\ tl_ret' = OkTime(current_time')
    /\ UNCHANGED <<playback_speed, tracks, config_duration>>

set_duration(d) ==
    /\ IF d <= 0
       THEN /\ tl_ret' = Err("OperationError")
            /\ UNCHANGED <<config_duration, current_time>>
       ELSE /\ config_duration' = d
            /\ current_time' = IF current_time > d THEN d ELSE current_time
            /\ tl_ret' = OkUnit
    /\ UNCHANGED <<is_playing, playback_speed, last_update_time, tracks>>

\* the wall clock moves on between two calls
clock_tick ==
    /\ now < MaxClock
    /\ now' = now + 1

\* inputs of the track specification
ClipTypes == {"Video", "Audio"}
TrackClipInputs ==
    {Clip("c1", ct, st, d, NoSource) :
        ct \in ClipTypes, st \in 0..MaxTime, d \in 1..MaxTime}
SeekTimes == (0 - 1)..(MaxTime + 1)

\* the track specification works on one track and clips of both types
TrTrackIds == {"t1"}

TrAddTrack ==
    /\ \E t \in TrTrackIds : add_track(t)
    /\ UNCHANGED <<ed_vars, rd_vars, pl_vars>>
TrRemoveTrack ==
    /\ \E t \in TrTrackIds : remove_track(t)
    /\ UNCHANGED <<ed_vars, rd_vars, pl_vars>>
TrAddClip ==
    /\ \E t \in TrTrackIds, c \in TrackClipInputs : add_clip_to_track(t, c)
    /\ UNCHANGED <<ed_vars, rd_vars, pl_vars>>
TrRemoveClip ==
    /\ \E t \in TrTrackIds, id \in {"c1", "c2"} : remove_clip_from_track(t, id)
    /\ UNCHANGED <<ed_vars, rd_vars, pl_vars>>

TrNext ==
    \/ TrAddTrack
    \/ TrRemoveTrack
    \/ TrAddClip
    \/ TrRemoveClip

\* inputs of the active-clip specification: clips of one type, so that the
\* tracks, their mute flags and the playback position can all vary
ActiveClipInputs == {c \in TrackClipInputs : c.clip_type = "Video"}

AcAddTrack ==
    /\ \E t \in TrackIds : add_track(t)
    /\ UNCHANGED <<ed_vars, rd_vars, pl_vars>>
AcAddClip ==
    /\ \E t \in TrackIds, c \in ActiveClipInputs : add_clip_to_track(t, c)
    /\ UNCHANGED <<ed_vars, rd_vars, pl_vars>>
AcSetMuted ==
    /\ \E t \in TrackIds, b \in BOOLEAN : set_muted(t, b)
    /\ UNCHANGED <<ed_vars, rd_vars, pl_vars>>
AcSeek ==
    /\ \E time \in SeekTimes : seek(time)
    /\ UNCHANGED <<ed_vars, rd_vars, pl_vars>>

AcNext ==
    \/ AcAddTrack
    \/ AcAddClip
    \/ AcSetMuted
    \/ AcSeek

\* inputs of the track-set specification: two tracks, clips of one tick
TkClipInputs ==
    {Clip("c1", "Video", st, 1, NoSource) : st \in 0..(MaxTime - 1)}

\* what a call on the tracks leaves alone
TkFrame ==
    /\ UNCHANGED <<is_playing, playback_speed, last_update_time, now, pl_ref>>
    /\ UNCHANGED <<ed_vars, rd_vars>>

TkAddTrack ==
    /\ \E t \in TrackIds : add_track(t)
    /\ pl_op' = "add_track"
    /\ TkFrame
TkRemoveTrack ==
    /\ \E t \in TrackIds : remove_track(t)
    /\ pl_op' = "remove_track"
    /\ TkFrame
TkAddClip ==
    /\ \E t \in TrackIds, c \in TkClipInputs : add_clip_to_track(t, c)
    /\ pl_op' = "add_clip"
    /\ TkFrame
TkSetMuted ==
    /\ \E t \in TrackIds, b \in BOOLEAN : set_muted(t, b)
    /\ pl_op' = "set_muted"
    /\ TkFrame

TkNext ==
    \/ TkAddTrack
    \/ TkRemoveTrack
    \/ TkAddClip
    \/ TkSetMuted

\* inputs of the playback specification
Speeds == 0..2
PlayDurations == 0..MaxTime

PlSeek ==
    /\ \E time \in SeekTimes : seek(time)
    /\ pl_op' = "seek"
    /\ UNCHANGED <<is_playing, playback_speed, last_update_time, now, pl_ref>>
    /\ UNCHANGED <<ed_vars, rd_vars>>
PlPlay ==
    /\ play
    /\ pl_op' = "play"
    /\ pl_ref' = now
    /\ UNCHANGED <<now, ed_vars, rd_vars>>
PlPause ==
    /\ pause
    /\ pl_op' = "pause"
    /\ UNCHANGED <<now, pl_ref, ed_vars, rd_vars>>
PlSetPlaybackSpeed ==
    /\ \E speed \in Speeds : set_playback_speed(speed)
    /\ pl_op' = "set_playback_speed"
    /\ UNCHANGED <<now, pl_ref, ed_vars, rd_vars>>
PlUpdate ==
    /\ update
    /\ pl_op' = "update"
    /\ pl_ref' = now
    /\ UNCHANGED <<now, ed_vars, rd_vars>>
PlSetDuration ==
    /\ \E d \in PlayDurations : set_duration(d)
    /\ pl_op' = "set_duration"
    /\ UNCHANGED <<now, pl_ref, ed_vars, rd_vars>>
PlClockTick ==
    /\ clock_tick
    /\ UNCHANGED <<is_playing, playback_speed, last_update_time, pl_ref, pl_op>>
    /\ UNCHANGED <<ed_vars, tl_vars, rd_vars>>

PlNext ==
    \/ PlSeek
    \/ PlPlay
    \/ PlPause
    \/ PlSetPlaybackSpeed
    \/ PlUpdate
    \/ PlSetDuration
    \/ PlClockTick

\* Timeline::new(config): the caller's TimelineConfig is stored as it is
Timeline_new(config_d) ==
    /\ tracks = <<>>
    /\ current_time = 0
    /\ config_duration = config_d
    /\ tl_ret = Err("None")

\* TimelineConfig::duration values a caller constructs a Timeline with
ConfigDurations == (0 - 1)..MaxTime

\* the wall clock of a run that never ends: Instant::now() keeps growing and
\* update reads it through now - last_update_time only, so at the bound the
\* two readings the model holds move back by one tick instead of now moving
\* on (an elapsed time of MaxClock ticks covers every duration at every
\* speed the model has)
clock_advance ==
    IF now < MaxClock
    THEN /\ now' = now + 1
         /\ UNCHANGED <<last_update_time, pl_ref>>
    ELSE /\ now' = now
         /\ last_update_time' =
                IF last_update_time > 0 THEN last_update_time - 1 ELSE 0
         /\ pl_ref' = IF pl_ref > 0 THEN pl_ref - 1 ELSE 0

\* update as the poll of a running player; pl_op tells the poll that ended
\* the playback from the other polls
PlPoll ==
    /\ update
    /\ pl_op' = IF is_playing /\ ~is_playing' THEN "update to the end"
                ELSE "update"
    /\ pl_ref' = now
    /\ UNCHANGED <<now, ed_vars, rd_vars>>
PlClockAdvance ==
    /\ clock_advance
    /\ UNCHANGED <<is_playing, playback_speed, pl_op>>
    /\ UNCHANGED <<ed_vars, tl_vars, rd_vars>>

PlLiveNext ==
    \/ PlSeek
    \/ PlPlay
    \/ PlPause
    \/ PlSetPlaybackSpeed
    \/ PlPoll
    \/ PlSetDuration
    \/ PlClockAdvance

\* ------------------------------------------------------------------------
\* TimelineRenderer (engine/timeline_renderer.rs)
\* ------------------------------------------------------------------------
\* TimelineRendererConfig::cache_size
CacheSize == 2

NoClip == Clip("none", "none", 0, 0, NoSource)

\* Result values of the renderer: Err(variant), Ok(()) and Ok(&Frame), a
\* frame being its timestamp and the layers composited onto the background
RdErr(e) == [status |-> e, kind |-> "none", time |-> 0, layers |-> <<>>]
RdOk == [status |-> "Ok", kind |-> "unit", time |-> 0, layers |-> <<>>]
RdFrame(time, layers) ==
    [status |-> "Ok", kind |-> "frame", time |-> time, layers |-> layers]

RdInit ==
    /\ is_initialized = FALSE
    /\ renderer_initialized = FALSE
    /\ clip_renderers = <<>>
    /\ frame_cache = <<>>
    /\ timeline_lock = "free"
    /\ rd_pc = "idle"
    /\ rd_time = 0
    /\ rd_pending = <<>>
    /\ rd_queue = <<>>
    /\ rd_cur = NoClip
    /\ rd_layers = <<>>
    /\ rd_ret = RdErr("None")
    /\ rd_unchanged = FALSE
    /\ rd_flipped = {}

\* the orders in which a HashMap with these keys may be iterated
Orders(keys) ==
    {o \in [1..Cardinality(keys) -> keys] :
        \A a, b \in 1..Cardinality(keys) : a # b => o[a] # o[b]}

\* the clips initialize builds a ClipRenderer for, in iteration order
RECURSIVE renderable_clips(_, _)
renderable_clips(order, k) ==
    IF k > Len(order) THEN <<>>
    ELSE SelectSeq(tracks[order[k]].clips,
                   LAMBDA c : c.clip_type = "Video" /\ c.source_path # NoSource)
         \o renderable_clips(order, k + 1)

\* ClipRenderer::new for a clip whose properties hold no "in_point"
ClipRenderer(clip) ==
    [source_path |-> clip.source_path, in_point |-> 0,
     out_point |-> 0 + clip.duration]

\* clip_renderers after inserting a renderer for each of the first n clips
RECURSIVE insert_renderers(_, _, _)
insert_renderers(m, cs, n) ==
    IF n = 0 THEN m
    ELSE MapPut(insert_renderers(m, cs, n - 1), cs[n].id, ClipRenderer(cs[n]))

\* the body of initialize from the state (cache, renderers) its caller left:
\* the inner renderer may fail to initialize, and opening the decoder of
\* the clip at position fail_at (0: none) may fail, which ends the loop
initialize_from(cache, renderers, renderer_ok, order, fail_at) ==
    /\ timeline_lock = "free"
    /\ frame_cache' = cache
    /\ IF ~renderer_initialized /\ ~renderer_ok
       THEN /\ rd_ret' = RdErr("RendererError")
            /\ clip_renderers' = renderers
            /\ UNCHANGED <<is_initialized, renderer_initialized>>
       ELSE LET cs == renderable_clips(order, 1)
            IN /\ renderer_initialized' = TRUE
               /\ fail_at <= Len(cs)
               /\ IF fail_at > 0
                  THEN /\ clip_renderers' =
                              insert_renderers(renderers, cs, fail_at - 1)
                       /\ rd_ret' = RdErr("DecoderError")
                       /\ UNCHANGED is_initialized
                  ELSE /\ clip_renderers' =
                              insert_renderers(renderers, cs, Len(cs))
                       /\ rd_ret' = RdOk
                       /\ is_initialized' = TRUE
    /\ rd_unchanged' = FALSE
    /\ UNCHANGED <<timeline_lock, rd_pc, rd_time, rd_pending, rd_queue,
                   rd_cur, rd_layers>>

initialize(renderer_ok, order, fail_at) ==
    /\ rd_pc = "idle"
    /\ initialize_from(frame_cache, clip_renderers, renderer_ok, order, fail_at)

\* update_timeline with the Arc of the same timeline: clears the cache,
\* closes and drops every ClipRenderer, then initializes again
update_timeline(renderer_ok, order, fail_at) ==
    /\ rd_pc = "idle"
    /\ initialize_from(<<>>, <<>>, renderer_ok, order, fail_at)

cleanup ==
    /\ rd_pc = "idle"
    /\ clip_renderers' = <<>>
    /\ frame_cache' = <<>>
    /\ renderer_initialized' = FALSE
    /\ is_initialized' = FALSE
    /\ rd_ret' = RdOk
    /\ rd_unchanged' = FALSE
    /\ UNCHANGED <<timeline_lock, rd_pc, rd_time, rd_pending, rd_queue,
                   rd_cur, rd_layers>>

\* render_frame up to the start of its loop over the active clips: the
\* initialization check, the cache lookup, the lock and active_clips()
render_frame_begin(time) ==
    /\ rd_pc = "idle"
    /\ IF ~is_initialized
       THEN /\ rd_ret' = RdErr("ResourceError")
            /\ rd_unchanged' = FALSE
            /\ UNCHANGED <<timeline_lock, rd_pc, rd_time, rd_pending,
                           rd_queue, rd_cur, rd_layers>>
       ELSE IF time \in DOMAIN frame_cache
       THEN /\ rd_ret' = frame_cache[time]
            /\ rd_unchanged' = TRUE
            /\ UNCHANGED <<timeline_lock, rd_pc, rd_time, rd_pending,
                           rd_queue, rd_cur, rd_layers>>
       ELSE /\ timeline_lock = "free"
            /\ timeline_lock' = "renderer"
            /\ rd_pending' = active_clips
            /\ rd_queue' = <<>>
            /\ rd_layers' = <<>>
            /\ rd_time' = time
            /\ rd_pc' = "layers"
            /\ UNCHANGED <<rd_cur, rd_ret, rd_unchanged>>
    /\ UNCHANGED <<is_initialized, renderer_initialized, clip_renderers,
                   frame_cache>>

\* one iteration of the loops up to the seek: the next clip of the current
\* entry, or the first clip of any entry not yet iterated
render_frame_next_clip(t) ==
    /\ rd_pc = "layers"
    /\ IF rd_queue # <<>>
       THEN /\ rd_cur' = Head(rd_queue)
            /\ rd_queue' = Tail(rd_queue)
            /\ UNCHANGED rd_pending
       ELSE /\ t \in DOMAIN rd_pending
            /\ rd_cur' = Head(rd_pending[t])
            /\ rd_queue' = Tail(rd_pending[t])
            /\ rd_pending' = MapRemove(rd_pending, t)
    /\ rd_pc' = IF /\ rd_cur'.clip_type = "Video"
                   /\ rd_cur'.id \in DOMAIN clip_renderers
                THEN "seek" ELSE "layers"
    /\ UNCHANGED <<is_initialized, renderer_initialized, clip_renderers,
                   frame_cache, timeline_lock, rd_time, rd_layers,
                   rd_ret, rd_unchanged>>

\* render_frame returns the error of a failed seek or decode through `?`
render_frame_fails(e) ==
    /\ rd_ret' = RdErr(e)
    /\ rd_unchanged' = FALSE
    /\ timeline_lock' = "free"
    /\ rd_pc' = "idle"
    /\ rd_pending' = <<>>
    /\ rd_queue' = <<>>
    /\ rd_cur' = NoClip
    /\ rd_layers' = <<>>
    /\ rd_time' = 0

\* clip_renderer.seek_to_time(time, clip.start_time)
render_frame_seek(ok) ==
    /\ rd_pc = "seek"
    /\ IF ok
       THEN /\ rd_pc' = "decode"
            /\ UNCHANGED <<timeline_lock, rd_time, rd_pending, rd_queue,
                           rd_cur, rd_layers, rd_ret, rd_unchanged>>
       ELSE render_frame_fails("DecoderError")
    /\ UNCHANGED <<is_initialized, renderer_initialized, clip_renderers,
                   frame_cache>>

\* the frame decoded for a clip: the source time the seek asked for
layer_of(clip, time) ==
    [clip |-> clip.id,
     source_time |-> clip_renderers[clip.id].in_point
                        + (time - clip.start_time)]

\* clip_renderer.decode_frame() and composite_frame
render_frame_decode(ok) ==
    /\ rd_pc = "decode"
    /\ IF ok
       THEN /\ rd_layers' = Append(rd_layers, layer_of(rd_cur, rd_time))
            /\ rd_pc' = "layers"
            /\ UNCHANGED <<timeline_lock, rd_time, rd_pending, rd_queue,
                           rd_cur, rd_ret, rd_unchanged>>
       ELSE render_frame_fails("DecoderError")
    /\ UNCHANGED <<is_initialized, renderer_initialized, clip_renderers,
                   frame_cache>>

\* the smallest key
min_key(keys) == CHOOSE k \in keys : \A j \in keys : k <= j

\* the cache after the eviction at the end of render_frame: the frame itself
\* is not inserted
cache_after_render(cache) ==
    IF Cardinality(DOMAIN cache) >= CacheSize /\ DOMAIN cache # {}
    THEN MapRemove(cache, min_key(DOMAIN cache))
    ELSE cache

\* the end of render_frame: renderer.render, the cache eviction, the return
\* of the frame and the drop of the timeline guard
render_frame_end ==
    /\ rd_pc = "layers"
    /\ rd_queue = <<>>
    /\ rd_pending = <<>>
    /\ frame_cache' = cache_after_render(frame_cache)
    /\ rd_ret' = RdFrame(rd_time, rd_layers)
    /\ rd_unchanged' = TRUE
    /\ timeline_lock' = "free"
    /\ rd_pc' = "idle"
    /\ rd_cur' = NoClip
    /\ rd_layers' = <<>>
    /\ rd_time' = 0
    /\ UNCHANGED <<is_initialized, renderer_initialized, clip_renderers,
                   rd_pending, rd_queue>>

\* inputs of the render specification: the clips a caller adds, each to its
\* track, and the times it seeks to and renders
RenderAdds ==
    {<<"t1", Clip("c1", "Video", 0, 2, "a.mp4")>>,
     <<"t2", Clip("c2", "Video", 1, 2, "b.mp4")>>,
     <<"t1", Clip("c3", "Audio", 0, 3, "c.mp3")>>}
RenderTimes == 0..2

\* what a call of the editing thread on the shared timeline leaves alone
EditFrame ==
    /\ rd_unchanged' = FALSE
    /\ UNCHANGED <<is_initialized, renderer_initialized, clip_renderers,
                   frame_cache, timeline_lock, rd_pc, rd_time, rd_pending,
                   rd_queue, rd_cur, rd_layers, rd_ret>>
    /\ UNCHANGED <<ed_vars, pl_vars, cr_vars, px_vars>>

\* calls of the editing thread: each takes the timeline's mutex
RdAddTrack ==
    /\ timeline_lock = "free"
    /\ \E t \in TrackIds : add_track(t)
    /\ EditFrame
    /\ UNCHANGED rd_flipped
RdAddClip ==
    /\ timeline_lock = "free"
    /\ \E a \in RenderAdds : add_clip_to_track(a[1], a[2])
    /\ EditFrame
    /\ UNCHANGED rd_flipped
RdRemoveClip ==
    /\ timeline_lock = "free"
    /\ \E a \in RenderAdds : remove_clip_from_track(a[1], a[2].id)
    /\ EditFrame
    /\ UNCHANGED rd_flipped
RdSetMuted ==
    /\ timeline_lock = "free"
    /\ \E t \in TrackIds, b \in BOOLEAN : set_muted(t, b)
    /\ rd_flipped' =
          IF rd_ret.kind = "frame"
          THEN rd_flipped \cup
               {t \in DOMAIN tracks : tracks'[t].is_muted # tracks[t].is_muted}
          ELSE {}
    /\ EditFrame
RdSeek ==
    /\ timeline_lock = "free"
    /\ \E time \in RenderTimes : seek(time)
    /\ EditFrame
    /\ UNCHANGED rd_flipped

RdInitialize ==
    /\ \E ok \in BOOLEAN, o \in Orders(DOMAIN tracks), k \in 0..MaxTrackClips :
          initialize(ok, o, k)
    /\ UNCHANGED <<ed_vars, tl_vars, pl_vars, cr_vars, px_vars>>
    /\ rd_flipped' = {}
RdUpdateTimeline ==
    /\ \E ok \in BOOLEAN, o \in Orders(DOMAIN tracks), k \in 0..MaxTrackClips :
          update_timeline(ok, o, k)
    /\ UNCHANGED <<ed_vars, tl_vars, pl_vars, cr_vars, px_vars>>
    /\ rd_flipped' = {}
RdCleanup ==
    /\ cleanup
    /\ UNCHANGED <<ed_vars, tl_vars, pl_vars, cr_vars, px_vars>>
    /\ rd_flipped' = {}
RdRenderBegin ==
    /\ \E time \in RenderTimes : render_frame_begin(time)
    /\ UNCHANGED <<ed_vars, tl_vars, pl_vars, cr_vars, px_vars>>
    /\ rd_flipped' = IF rd_pc' = "idle" THEN {} ELSE rd_flipped
RdRenderNextClip ==
    /\ \E t \in TrackIds : render_frame_next_clip(t)
    /\ UNCHANGED <<ed_vars, tl_vars, pl_vars, cr_vars, px_vars>>
    /\ UNCHANGED rd_flipped
RdRenderSeek ==
    /\ \E ok \in BOOLEAN : render_frame_seek(ok)
    /\ UNCHANGED <<ed_vars, tl_vars, pl_vars, cr_vars, px_vars>>
    /\ rd_flipped' = IF rd_pc' = "idle" THEN {} ELSE rd_flipped
RdRenderDecode ==
    /\ \E ok \in BOOLEAN : render_frame_decode(ok)
    /\ UNCHANGED <<ed_vars, tl_vars, pl_vars, cr_vars, px_vars>>
    /\ rd_flipped' = IF rd_pc' = "idle" THEN {} ELSE rd_flipped
RdRenderEnd ==
    /\ render_frame_end
    /\ rd_flipped' = {}
    /\ UNCHANGED <<ed_vars, tl_vars, pl_vars, cr_vars, px_vars>>

RenderNext ==
    \/ RdAddTrack
    \/ RdAddClip
    \/ RdRemoveClip
    \/ RdSetMuted
    \/ RdSeek
    \/ RdInitialize
    \/ RdUpdateTimeline
    \/ RdCleanup
    \/ RdRenderBegin
    \/ RdRenderNextClip
    \/ RdRenderSeek
    \/ RdRenderDecode
    \/ RdRenderEnd

\* ------------------------------------------------------------------------
\* ClipRenderer and VideoDecoder (engine/timeline_renderer.rs,
\* engine/video_decoder.rs)
\* ------------------------------------------------------------------------
NoMedia == 0 - 1

\* Result values of the ClipRenderer: Ok(..) and Err(DecoderError(variant));
\* a call of the VideoDecoder returns the same values without the wrapper.
\* CrPanic: the call panicked at an unwrap()
CrOk == [status |-> "Ok", error |-> "none"]
CrErr(e) == [status |-> "DecoderError", error |-> e]
CrPanic == [status |-> "panic", error |-> "none"]

\* the decoder fields, in the order of decoder_state
dec_fields ==
    <<dec_is_initialized, dec_media_info, dec_streams, dec_current_position,
      dec_current_video_stream, dec_current_audio_stream, dec_format_context,
      dec_video_codec_context, dec_audio_codec_context, dec_sws_context,
      dec_is_seeking, dec_cursor>>

\* VideoDecoder::new
decoder_new ==
    [is_initialized |-> FALSE, media_info |-> NoMedia, streams |-> <<>>,
     current_position |-> 0, current_video_stream |-> 0 - 1,
     current_audio_stream |-> 0 - 1, format_context |-> FALSE,
     video_codec_context |-> FALSE, audio_codec_context |-> FALSE,
     sws_context |-> FALSE, is_seeking |-> FALSE, cursor |-> 0]

\* the decoder as a record
decoder_state ==
    [is_initialized |-> dec_is_initialized, media_info |-> dec_media_info,
     streams |-> dec_streams, current_position |-> dec_current_position,
     current_video_stream |-> dec_current_video_stream,
     current_audio_stream |-> dec_current_audio_stream,
     format_context |-> dec_format_context,
     video_codec_context |-> dec_video_codec_context,
     audio_codec_context |-> dec_audio_codec_context,
     sws_context |-> dec_sws_context, is_seeking |-> dec_is_seeking,
     cursor |-> dec_cursor]

\* the decoder becomes this record
decoder_becomes(r) ==
    /\ dec_is_initialized' = r.is_initialized
    /\ dec_media_info' = r.media_info
    /\ dec_streams' = r.streams
    /\ dec_current_position' = r.current_position
    /\ dec_current_video_stream' = r.current_video_stream
    /\ dec_current_audio_stream' = r.current_audio_stream
    /\ dec_format_context' = r.format_context
    /\ dec_video_codec_context' = r.video_codec_context
    /\ dec_audio_codec_context' = r.audio_codec_context
    /\ dec_sws_context' = r.sws_context
    /\ dec_is_seeking' = r.is_seeking
    /\ dec_cursor' = r.cursor

\* ClipRenderer::new(.., 0, 1) with its VideoDecoder::new
CrInit ==
    /\ cr_in_point = 0
    /\ cr_out_point = 1
    /\ dec_is_initialized = decoder_new.is_initialized
    /\ dec_media_info = decoder_new.media_info
    /\ dec_streams = decoder_new.streams
    /\ dec_current_position = decoder_new.current_position
    /\ dec_current_video_stream = decoder_new.current_video_stream
    /\ dec_current_audio_stream = decoder_new.current_audio_stream
    /\ dec_format_context = decoder_new.format_context
    /\ dec_video_codec_context = decoder_new.video_codec_context
    /\ dec_audio_codec_context = decoder_new.audio_codec_context
    /\ dec_sws_context = decoder_new.sws_context
    /\ dec_is_seeking = decoder_new.is_seeking
    /\ dec_cursor = decoder_new.cursor
    /\ cr_ret = CrOk
    /\ cr_op = "new"
    /\ close_run = 0

\* ClipRenderer::new(clip_id, source_path, in_point, out_point)
ClipRenderer_new(in_point, out_point) ==
    /\ cr_in_point' = in_point
    /\ cr_out_point' = out_point
    /\ decoder_becomes(decoder_new)
    /\ cr_ret' = CrOk

\* the value VideoDecoder::close leaves: an uninitialized decoder is
\* returned as it is, an initialized one has every field reset
decoder_closed(r) ==
    IF ~r.is_initialized THEN r ELSE decoder_new

\* index in the file of the first stream of this medium, -1 when none
RECURSIVE first_stream(_, _, _)
first_stream(streams, medium, i) ==
    IF i > Len(streams) THEN 0 - 1
    ELSE IF streams[i] = medium THEN i - 1
    ELSE first_stream(streams, medium, i + 1)

\* video_streams.len() and audio_streams.len() of MediaInfo
stream_count(streams, medium) ==
    Cardinality({i \in 1..Len(streams) : streams[i] = medium})

\* the stages at which VideoDecoder::open may return an error, in order
OpenFailures == {"init_ffmpeg", "input", "video_codec", "sws", "audio_codec"}
open_stage(f) ==
    CASE f = "init_ffmpeg" -> 1
      [] f = "input" -> 2
      [] f = "video_codec" -> 3
      [] f = "sws" -> 4
      [] f = "audio_codec" -> 5
      [] OTHER -> 6

\* VideoDecoder::open of a file of this duration whose streams have these
\* media; convert: the video stream's pixel format differs from the output
\* format; fails_at names the stage that fails, "none" when all succeed.
\* An initialized decoder is closed first.
VideoDecoder_open(media_duration, streams, convert, fails_at) ==
    LET video_stream_index == first_stream(streams, "V", 1)
        audio_stream_index == first_stream(streams, "A", 1)
        k == open_stage(fails_at)
        c == decoder_closed(decoder_state)
    IN /\ fails_at \in {"video_codec", "sws"} => video_stream_index >= 0
       /\ fails_at = "sws" => convert
       /\ fails_at = "audio_codec" => audio_stream_index >= 0
       /\ cr_ret' = CASE k = 1 -> CrErr("InitializationError")
                      [] k = 2 -> CrErr("IOError")
                      [] k \in 3..5 -> CrErr("FFmpegLibError")
                      [] OTHER -> CrOk
       /\ IF k = 1 THEN UNCHANGED dec_fields
          ELSE decoder_becomes(
                 [is_initialized |-> IF k = 6 THEN TRUE ELSE c.is_initialized,
                  media_info |-> IF k = 6 THEN media_duration ELSE c.media_info,
                  streams |-> IF k = 6 THEN streams ELSE c.streams,
                  current_position |-> IF k = 6 THEN 0 ELSE c.current_position,
                  current_video_stream |->
                      IF k > 3 /\ video_stream_index >= 0
                      THEN video_stream_index ELSE c.current_video_stream,
                  current_audio_stream |->
                      IF k > 5 /\ audio_stream_index >= 0
                      THEN audio_stream_index ELSE c.current_audio_stream,
                  format_context |-> IF k > 2 THEN TRUE ELSE c.format_context,
                  video_codec_context |->
                      IF k > 3 /\ video_stream_index >= 0
                      THEN TRUE ELSE c.video_codec_context,
                  audio_codec_context |->
                      IF k > 5 /\ audio_stream_index >= 0
                      THEN TRUE ELSE c.audio_codec_context,
                  sws_context |->
                      IF k > 4 /\ video_stream_index >= 0 /\ convert
                      THEN TRUE ELSE c.sws_context,
                  is_seeking |-> c.is_seeking,
                  cursor |-> IF k > 2 THEN 0 ELSE c.cursor])

\* ClipRenderer::initialize: VideoDecoder::open of the source
ClipRenderer_initialize(media_duration, streams, convert, fails_at) ==
    /\ VideoDecoder_open(media_duration, streams, convert, fails_at)
    /\ UNCHANGED <<cr_in_point, cr_out_point>>

\* VideoDecoder::seek(time_sec); ffmpeg_ok: format_ctx.seek succeeds.  The
\* result is the triple of the returned value, the new position and the
\* new is_seeking flag.  With no video stream selected the stream lookup
\* finds nothing and its unwrap() panics.
VideoDecoder_seek(time_sec, ffmpeg_ok) ==
    IF ~dec_is_initialized
    THEN <<CrErr("InitializationError"), dec_current_position, dec_is_seeking>>
    ELSE IF dec_media_info = NoMedia
    THEN <<CrErr("InitializationError"), dec_current_position, dec_is_seeking>>
    ELSE IF time_sec < 0 \/ time_sec > dec_media_info
    THEN <<CrErr("DecodingError"), dec_current_position, dec_is_seeking>>
    ELSE IF ~dec_format_context
    THEN <<CrErr("DecodingError"), dec_current_position, TRUE>>
    ELSE IF dec_current_video_stream < 0
    THEN <<CrPanic, dec_current_position, TRUE>>
    ELSE IF ~ffmpeg_ok
    THEN <<CrErr("FFmpegLibError"), dec_current_position, TRUE>>
    ELSE <<CrOk, time_sec, FALSE>>

\* mutant: a seek moves the position before it tests the bounds
decoder_seek_moves_first(time_sec, ffmpeg_ok) ==
    LET sought == VideoDecoder_seek(time_sec, ffmpeg_ok)
    IN /\ cr_ret' = sought[1]
       /\ dec_current_position' =
             IF dec_is_initialized THEN time_sec ELSE sought[2]
       /\ dec_is_seeking' = sought[3]
       /\ dec_cursor' \in IF sought[1] = CrOk THEN 0..time_sec ELSE {dec_cursor}
       /\ UNCHANGED <<dec_is_initialized, dec_media_info, dec_streams,
                      dec_current_video_stream, dec_current_audio_stream,
                      dec_format_context, dec_video_codec_context,
                      dec_audio_codec_context, dec_sws_context>>

\* the decoder after VideoDecoder::seek: a seek that succeeds puts the read
\* cursor on an accessible point at or before time_sec
decoder_seek(time_sec, ffmpeg_ok) ==
    LET sought == VideoDecoder_seek(time_sec, ffmpeg_ok)
    IN /\ cr_ret' = sought[1]
       /\ dec_current_position' = sought[2]
       /\ dec_is_seeking' = sought[3]
       /\ dec_cursor' \in IF sought[1] = CrOk THEN 0..time_sec ELSE {dec_cursor}
       /\ UNCHANGED <<dec_is_initialized, dec_media_info, dec_streams,
                      dec_current_video_stream, dec_current_audio_stream,
                      dec_format_context, dec_video_codec_context,
                      dec_audio_codec_context, dec_sws_context>>

\* ClipRenderer::seek_to_time(timeline_time, clip_start_time)
seek_to_time(timeline_time, clip_start_time, ffmpeg_ok) ==
    LET source_time == cr_in_point + (timeline_time - clip_start_time)
    IN /\ decoder_seek(source_time, ffmpeg_ok)
       /\ UNCHANGED <<cr_in_point, cr_out_point>>

\* the outcomes of the codec in decode_video_frame once a packet of the
\* video stream was read: a frame, an error of send_packet or receive_frame,
\* an error of the format conversion after the frame was received
DecodeOutcomes == {"frame", "codec_error", "convert_error"}

\* the source holds one video packet per tick of its duration and the read
\* cursor is on the next one: the source is exhausted when fewer than n
\* packets are left
exhausted(n) == n > dec_media_info - dec_cursor

\* VideoDecoder::decode_video_frame: n packets are read until the codec
\* gives a frame or fails, the last of them answered with this outcome;
\* convert: the frame's pixel format differs from the output format.
\* DecoderState::is_decoding is set for the length of the call only.
decode_video_frame(n, outcome, convert) ==
    /\ IF ~dec_is_initialized
       THEN /\ cr_ret' = CrErr("InitializationError")
            /\ UNCHANGED <<dec_current_position, dec_cursor, dec_sws_context>>
       ELSE IF dec_current_video_stream < 0 \/ ~dec_video_codec_context
       THEN /\ cr_ret' = CrErr("DecodingError")
            /\ UNCHANGED <<dec_current_position, dec_cursor, dec_sws_context>>
       ELSE IF ~dec_format_context
       THEN /\ cr_ret' = CrErr("DecodingError")
            /\ UNCHANGED <<dec_current_position, dec_cursor, dec_sws_context>>
       ELSE IF exhausted(n)
       THEN /\ cr_ret' = CrErr("DecodingError")
            /\ dec_cursor' = Max(dec_cursor, dec_media_info)
            /\ UNCHANGED <<dec_current_position, dec_sws_context>>
       ELSE IF outcome = "codec_error"
       THEN /\ cr_ret' = CrErr("FFmpegLibError")
            /\ dec_cursor' = dec_cursor + n
            /\ UNCHANGED <<dec_current_position, dec_sws_context>>
       ELSE /\ dec_cursor' = dec_cursor + n
            /\ dec_current_position' = dec_cursor + n - 1
            /\ IF outcome = "convert_error"
               THEN /\ convert
                    /\ cr_ret' = CrErr("FFmpegLibError")
                    /\ UNCHANGED dec_sws_context
               ELSE /\ cr_ret' = CrOk
                    /\ dec_sws_context' = (dec_sws_context \/ convert)
    /\ UNCHANGED <<dec_is_initialized, dec_media_info, dec_streams,
                   dec_current_video_stream, dec_current_audio_stream,
                   dec_format_context, dec_video_codec_context,
                   dec_audio_codec_context, dec_is_seeking>>

\* ClipRenderer::decode_frame
decode_frame(n, outcome, convert) ==
    /\ decode_video_frame(n, outcome, convert)
    /\ UNCHANGED <<cr_in_point, cr_out_point>>

\* the stages at which select_video_stream may return an error once it has
\* dropped the current codec context
SelectFailures == {"codec", "sws"}

\* VideoDecoder::select_video_stream(stream_index) on a stream whose pixel
\* format differs (convert) or not from the output format
select_video_stream(stream_index, convert, fails_at) ==
    /\ IF ~dec_is_initialized \/ dec_media_info = NoMedia
       THEN /\ cr_ret' = CrErr("InitializationError")
            /\ UNCHANGED <<dec_current_video_stream, dec_video_codec_context,
                           dec_sws_context>>
       ELSE IF \/ stream_index < 0
               \/ stream_index >= stream_count(dec_streams, "V")
       THEN /\ cr_ret' = CrErr("DecodingError")
            /\ UNCHANGED <<dec_current_video_stream, dec_video_codec_context,
                           dec_sws_context>>
       ELSE IF dec_current_video_stream = stream_index
       THEN /\ cr_ret' = CrOk
            /\ UNCHANGED <<dec_current_video_stream, dec_video_codec_context,
                           dec_sws_context>>
       ELSE IF ~dec_format_context
       THEN /\ cr_ret' = CrErr("DecodingError")
            /\ UNCHANGED <<dec_current_video_stream, dec_video_codec_context,
                           dec_sws_context>>
       ELSE IF fails_at = "codec"
       THEN /\ cr_ret' = CrErr("FFmpegLibError")
            /\ dec_video_codec_context' = FALSE
            /\ dec_sws_context' = FALSE
            /\ UNCHANGED dec_current_video_stream
       ELSE /\ dec_video_codec_context' = TRUE
            /\ dec_current_video_stream' = stream_index
            /\ IF fails_at = "sws"
               THEN /\ convert
                    /\ cr_ret' = CrErr("FFmpegLibError")
                    /\ dec_sws_context' = FALSE
               ELSE /\ cr_ret' = CrOk
                    /\ dec_sws_context' = convert
    /\ UNCHANGED <<dec_is_initialized, dec_media_info, dec_streams,
                   dec_current_position, dec_current_audio_stream,
                   dec_format_context, dec_audio_codec_context,
                   dec_is_seeking, dec_cursor, cr_in_point, cr_out_point>>

\* VideoDecoder::select_audio_stream(stream_index)
select_audio_stream(stream_index, fails_at) ==
    /\ IF ~dec_is_initialized \/ dec_media_info = NoMedia
       THEN /\ cr_ret' = CrErr("InitializationError")
            /\ UNCHANGED <<dec_current_audio_stream, dec_audio_codec_context>>
       ELSE IF \/ stream_index < 0
               \/ stream_index >= stream_count(dec_streams, "A")
       THEN /\ cr_ret' = CrErr("DecodingError")
            /\ UNCHANGED <<dec_current_audio_stream, dec_audio_codec_context>>
       ELSE IF dec_current_audio_stream = stream_index
       THEN /\ cr_ret' = CrOk
            /\ UNCHANGED <<dec_current_audio_stream, dec_audio_codec_context>>
       ELSE IF ~dec_format_context
       THEN /\ cr_ret' = CrErr("DecodingError")
            /\ UNCHANGED <<dec_current_audio_stream, dec_audio_codec_context>>
       ELSE IF fails_at = "codec"
       THEN /\ cr_ret' = CrErr("FFmpegLibError")
            /\ dec_audio_codec_context' = FALSE
            /\ UNCHANGED dec_current_audio_stream
       ELSE /\ cr_ret' = CrOk
            /\ dec_audio_codec_context' = TRUE
            /\ dec_current_audio_stream' = stream_index
    /\ UNCHANGED <<dec_is_initialized, dec_media_info, dec_streams,
                   dec_current_position, dec_current_video_stream,
                   dec_format_context, dec_video_codec_context,
                   dec_sws_context, dec_is_seeking, dec_cursor,
                   cr_in_point, cr_out_point>>

\* mutant: close leaves the format context of an open decoder in place
ClipRenderer_close_keeps_context ==
    /\ decoder_becomes([decoder_closed(decoder_state) EXCEPT
                           !.format_context = dec_format_context])
    /\ cr_ret' = CrOk
    /\ UNCHANGED <<cr_in_point, cr_out_point>>

\* ClipRenderer::close: VideoDecoder::close
ClipRenderer_close ==
    /\ decoder_becomes(decoder_closed(decoder_state))
    /\ cr_ret' = CrOk
    /\ UNCHANGED <<cr_in_point, cr_out_point>>

\* inputs of the clip specification
ClipInPoints == 0..1
ClipDurations == 1..2
MediaDurations == 1..MaxMedia
TimelineTimes == 0..MaxTime
\* the source of a clip: a file with a video and an audio stream
ClipStreams == {<<"V", "A">>}

\* what a call on the ClipRenderer leaves alone in the rest of the engine
ClipFrame ==
    UNCHANGED <<ed_vars, tl_vars, pl_vars, is_initialized,
                renderer_initialized, clip_renderers, frame_cache,
                timeline_lock, rd_pc, rd_time, rd_pending, rd_queue, rd_cur,
                rd_layers, rd_ret, rd_unchanged, rd_flipped, px_vars>>

\* the consecutive close() calls that end now, the first of them made on an
\* initialized decoder (counted up to 2)
close_run_after ==
    IF dec_is_initialized THEN 1
    ELSE IF close_run > 0 THEN 2
    ELSE 0

CrNew ==
    /\ \E ip \in ClipInPoints, d \in ClipDurations : ClipRenderer_new(ip, ip + d)
    /\ cr_op' = "new"
    /\ close_run' = 0
    /\ ClipFrame
CrInitialize ==
    /\ \E m \in MediaDurations, st \in ClipStreams,
          f \in (OpenFailures \ {"sws"}) \cup {"none"} :
          ClipRenderer_initialize(m, st, FALSE, f)
    /\ cr_op' = "initialize"
    /\ close_run' = 0
    /\ ClipFrame
CrSeekToTime ==
    /\ \E t \in TimelineTimes, s \in TimelineTimes, ok \in BOOLEAN :
          seek_to_time(t, s, ok)
    /\ cr_op' = "seek_to_time"
    /\ close_run' = 0
    /\ ClipFrame
CrClose ==
    /\ ClipRenderer_close
    /\ cr_op' = "close"
    /\ close_run' = close_run_after
    /\ ClipFrame

ClipNext ==
    \/ CrNew
    \/ CrInitialize
    \/ CrSeekToTime
    \/ CrClose

\* inputs of the decoder specification: the files opened, the times sought,
\* the stream indexes selected, the packets one decode reads
StreamLayouts == {<<"V">>, <<"A">>, <<"A", "V">>, <<"V", "V">>}
OpenedDurations == (MaxMedia - 1)..MaxMedia
DecoderSeekTimes == (0 - 1)..(MaxMedia + 1)
StreamIndexes == (0 - 1)..2
PacketCounts == 1..2

\* the decoder specification drives the VideoDecoder of one ClipRenderer
\* whose window starts at 0
DcOpen ==
    /\ \E m \in OpenedDurations, st \in StreamLayouts, cv \in BOOLEAN,
          f \in OpenFailures \cup {"none"} :
          ClipRenderer_initialize(m, st, cv, f)
    /\ cr_op' = "open"
    /\ close_run' = 0
    /\ ClipFrame
DcSeek ==
    /\ \E t \in DecoderSeekTimes, ok \in BOOLEAN : decoder_seek(t, ok)
    /\ cr_op' = "seek"
    /\ close_run' = 0
    /\ UNCHANGED <<cr_in_point, cr_out_point>>
    /\ ClipFrame
DcDecode ==
    /\ \E n \in PacketCounts, o \in DecodeOutcomes, cv \in BOOLEAN :
          decode_frame(n, o, cv)
    /\ cr_op' = "decode"
    /\ close_run' = 0
    /\ ClipFrame
DcSelectVideoStream ==
    /\ \E i \in StreamIndexes, cv \in BOOLEAN, f \in SelectFailures \cup {"none"} :
          select_video_stream(i, cv, f)
    /\ cr_op' = "select_video_stream"
    /\ close_run' = 0
    /\ ClipFrame
DcSelectAudioStream ==
    /\ \E i \in StreamIndexes, f \in {"codec", "none"} :
          select_audio_stream(i, f)
    /\ cr_op' = "select_audio_stream"
    /\ close_run' = 0
    /\ ClipFrame
DcClose ==
    /\ ClipRenderer_close
    /\ cr_op' = "close"
    /\ close_run' = close_run_after
    /\ ClipFrame

DecoderNext ==
    \/ DcOpen
    \/ DcSeek
    \/ DcDecode
    \/ DcSelectVideoStream
    \/ DcSelectAudioStream
    \/ DcClose

\* ------------------------------------------------------------------------
\* Specifications
\* ------------------------------------------------------------------------
\* ------------------------------------------------------------------------
\* The output buffer of render_frame and composite_frame
\* (engine/timeline_renderer.rs), byte by byte
\* ------------------------------------------------------------------------
\* largest TimelineRendererConfig::width and height; the decoded frames are
\* up to one pixel larger in each dimension
MaxWidth == 2
\* composite_frame calls of one render_frame
MaxLayers == 2

Min(a, b) == IF a < b THEN a ELSE b

\* f32 arithmetic of the blend.  A value is m * 2^(-e) with m <= 2^24; every
\* operation gives the exact result rounded to a 24 bit significand, ties to
\* even, as IEEE 754 single precision does.
F32(m, e) == [m |-> m, e |-> e]

RECURSIVE BitLen(_)
BitLen(n) == IF n = 0 THEN 0 ELSE 1 + BitLen(n \div 2)

\* the value (hi * 2^w + lo) * 2^(-e), lo < 2^w, rounded to 24 bits
f32_round(hi, lo, w, e) ==
    LET bl == IF hi > 0 THEN w + BitLen(hi) ELSE BitLen(lo)
        dropped == IF bl > 24 THEN bl - 24 ELSE 0
        kept == IF dropped <= w
                THEN (hi * 2^(w - dropped)) + (lo \div 2^dropped)
                ELSE hi \div 2^(dropped - w)
        rem == IF dropped <= w
               THEN lo % 2^dropped
               ELSE ((hi % 2^(dropped - w)) * 2^w) + lo
        half == IF dropped > 0 THEN 2^(dropped - 1) ELSE 0
        up == dropped > 0 /\ (rem > half \/ (rem = half /\ (kept % 2) = 1))
    IN F32(IF up THEN kept + 1 ELSE kept, e - dropped)

\* `byte as f32 / 255.0` for 0 < byte < 255: the quotient bit by bit, r the
\* remainder, q the bits so far, s their number
RECURSIVE f32_div_255(_, _, _)
f32_div_255(r, q, s) ==
    IF q >= 2^23
    THEN F32(IF 2 * r > 255 THEN q + 1 ELSE q, s)
    ELSE IF 2 * r >= 255
    THEN f32_div_255(2 * r - 255, 2 * q + 1, s + 1)
    ELSE f32_div_255(2 * r, 2 * q, s + 1)

\* `1.0 - alpha` for 0 < alpha < 1
f32_one_minus(alpha) ==
    IF alpha.e <= 24
    THEN F32(2^alpha.e - alpha.m, alpha.e)
    ELSE LET k == alpha.e - 24
             q == alpha.m \div 2^k
             r == alpha.m % 2^k
         IN IF r = 0
            THEN F32(2^24 - q, 24)
            ELSE f32_round(2^24 - q - 1, 2^k - r, k, alpha.e)

\* `x * byte as f32`; the product is formed in two 12 bit halves of x.m
f32_mul_u8(x, byte) ==
    IF x.m = 0 \/ byte = 0
    THEN F32(0, 0)
    ELSE LET p == (x.m % 4096) * byte
         IN f32_round(((x.m \div 4096) * byte) + (p \div 4096), p % 4096,
                      12, x.e)

\* `x + y`
f32_add(x, y) ==
    IF x.m = 0 THEN y
    ELSE IF y.m = 0 THEN x
    ELSE LET coarse == IF x.e <= y.e THEN x ELSE y
             fine == IF x.e <= y.e THEN y ELSE x
             k == fine.e - coarse.e
         IN f32_round(coarse.m + (fine.m \div 2^k), fine.m % 2^k, k, fine.e)

\* `x as u8`: truncation towards zero, saturating at 255
f32_as_u8(x) ==
    LET v == IF x.e > 24 THEN 0 ELSE x.m \div 2^x.e
    IN IF v > 255 THEN 255 ELSE v

\* ((1.0 - alpha) * output as f32 + alpha * input as f32) as u8 with
\* alpha = input alpha as f32 / 255.0
blend(in_alpha, output, input) ==
    LET alpha == IF in_alpha = 0 THEN F32(0, 0)
                 ELSE IF in_alpha = 255 THEN F32(1, 0)
                 ELSE f32_div_255(in_alpha, 0, 0)
        one_minus == IF in_alpha = 0 THEN F32(1, 0)
                     ELSE IF in_alpha = 255 THEN F32(0, 0)
                     ELSE f32_one_minus(alpha)
    IN f32_as_u8(f32_add(f32_mul_u8(one_minus, output),
                         f32_mul_u8(alpha, input)))

\* a decoded RGBA32 VideoFrame; the colour of a pixel tells its column (red)
\* and its row (green), the alpha is the same all over the frame
Shade(k) == 60 * (k + 1)
VideoFrame(width, height, alpha) ==
    [width |-> width, height |-> height,
     data |-> [j \in 1..(width * height * 4) |->
                 LET q == (j - 1) \div 4
                     ch == (j - 1) % 4
                 IN CASE ch = 0 -> Shade(q % width)
                      [] ch = 1 -> Shade(q \div width)
                      [] ch = 2 -> 0
                      [] OTHER -> alpha]]
NoFrame == [width |-> 0, height |-> 0, data |-> <<>>]

PxInit ==
    /\ config_width = 1
    /\ config_height = 1
    /\ background_color = <<0, 0, 0, 255>>
    /\ frame_data = <<>>
    /\ px_input = NoFrame
    /\ px_layers = 0
    /\ px_op = "none"

\* TimelineRenderer::new(config, ..)
TimelineRenderer_new(width, height, background) ==
    /\ config_width' = width
    /\ config_height' = height
    /\ background_color' = background
    /\ frame_data' = <<>>

\* render_frame: vec![background_color[0..4]] resized to width * height * 4
\* bytes, the new bytes being 0
render_frame_buffer ==
    /\ frame_data' = [j \in 1..(config_width * config_height * 4) |->
                         IF j <= 4 THEN background_color[j] ELSE 0]
    /\ UNCHANGED <<config_width, config_height, background_color>>

\* composite_frame(output, input).  Each pass of its loops writes the four
\* bytes of one output pixel and reads nothing but that pixel and one input
\* pixel, so the result is given byte by byte: j is the place of the byte in
\* output, counted from 1.
composite_frame(output, input) ==
    LET out_width == config_width
        out_height == config_height
        in_width == input.width
        in_height == input.height
        x_offset == IF out_width > in_width
                    THEN (out_width - in_width) \div 2 ELSE 0
        y_offset == IF out_height > in_height
                    THEN (out_height - in_height) \div 2 ELSE 0
        x(j) == (((j - 1) \div 4) % out_width) - x_offset
        y(j) == (((j - 1) \div 4) \div out_width) - y_offset
        in_pos(j) == (y(j) * in_width + x(j)) * 4
        out_pos(j) == ((j - 1) \div 4) * 4
        written(j) ==
            /\ y(j) >= 0 /\ y(j) < Min(in_height, out_height)
            /\ x(j) >= 0 /\ x(j) < Min(in_width, out_width)
            /\ out_pos(j) + 3 < Len(output)
            /\ in_pos(j) + 3 < Len(input.data)
    IN [j \in 1..Len(output) |->
          IF ~written(j) THEN output[j]
          ELSE IF ((j - 1) % 4) = 3 THEN 255
          ELSE blend(input.data[in_pos(j) + 4], output[j],
                     input.data[in_pos(j) + ((j - 1) % 4) + 1])]

\* inputs of the compositing specification
Backgrounds == {<<0, 0, 0, 255>>, <<255, 255, 255, 255>>}
Alphas == {0, 128, 255}
DecodedFrames ==
    {VideoFrame(w, h, a) : w \in 1..(MaxWidth + 1), h \in 1..(MaxWidth + 1),
                           a \in Alphas}

PxFrame ==
    UNCHANGED <<ed_vars, tl_vars, pl_vars, cr_vars, is_initialized,
                renderer_initialized, clip_renderers, frame_cache,
                timeline_lock, rd_pc, rd_time, rd_pending, rd_queue, rd_cur,
                rd_layers, rd_ret, rd_unchanged, rd_flipped>>

PxNew ==
    /\ \E w \in 1..MaxWidth, h \in 1..MaxWidth, bg \in Backgrounds :
          TimelineRenderer_new(w, h, bg)
    /\ px_input' = NoFrame
    /\ px_layers' = 0
    /\ px_op' = "new"
    /\ PxFrame
PxRenderFrameBuffer ==
    /\ render_frame_buffer
    /\ px_input' = NoFrame
    /\ px_layers' = 0
    /\ px_op' = "render_frame_buffer"
    /\ PxFrame
PxCompositeFrame ==
    /\ frame_data # <<>>
    /\ px_layers < MaxLayers
    /\ \E input \in DecodedFrames :
          /\ frame_data' = composite_frame(frame_data, input)
          /\ px_input' = input
    /\ px_layers' = px_layers + 1
    /\ px_op' = "composite_frame"
    /\ UNCHANGED <<config_width, config_height, background_color>>
    /\ PxFrame

CompositeNext ==
    \/ PxNew
    \/ PxRenderFrameBuffer
    \/ PxCompositeFrame

Init == EdInit /\ TlInit /\ PlInit /\ RdInit /\ CrInit /\ PxInit

\* the editing Timeline under any sequence of its calls
SpecEdit == Init /\ [][EdNext]_vars

\* the editing Timeline under add, move, split and remove
SpecCut == Init /\ [][CtNext]_vars

\* the editing Timeline with effects applied to its clips
SpecEffect == Init /\ [][EfNext]_vars

\* the engine Timeline's tracks under any sequence of add and remove calls
SpecTrack == Init /\ [][TrNext]_vars

\* the engine Timeline under clip insertion, muting and seeking
SpecActive == Init /\ [][AcNext]_vars

\* the engine Timeline's set of tracks under add_track and remove_track
SpecTrackSet == Init /\ [][TkNext]_vars

\* playback of the engine Timeline against the wall clock
SpecPlay == Init /\ [][PlNext]_vars

\* the playback calls on a Timeline built from any TimelineConfig
InitConfigured ==
    /\ EdInit
    /\ \E config_d \in ConfigDurations : Timeline_new(config_d)
    /\ PlInit
    /\ RdInit
    /\ CrInit
    /\ PxInit
SpecPlayConfigured == InitConfigured /\ [][PlNext]_vars

\* a player whose caller keeps polling update while the wall clock runs:
\* the poll and the clock are always taken again
SpecPlayLive ==
    /\ Init
    /\ [][PlLiveNext]_vars
    /\ WF_vars(PlPoll)
    /\ WF_vars(PlClockAdvance)

\* one ClipRenderer driven through its calls
SpecClip == Init /\ [][ClipNext]_vars

\* one VideoDecoder driven through its calls
SpecDecoder == Init /\ [][DecoderNext]_vars

\* the TimelineRenderer on its thread and the editing thread, sharing the
\* timeline behind its mutex
SpecRender == Init /\ [][RenderNext]_vars

\* the bytes of the output buffer through one render_frame after another
SpecComposite == Init /\ [][CompositeNext]_vars

\* ------------------------------------------------------------------------
\* Properties of the editing Timeline
\* ------------------------------------------------------------------------
\* a split_clip(id, p) call that passes every check of the code
SplitAccepted(id, p) ==
    /\ id \in DOMAIN clips
    /\ clips[id].start_time < p
    /\ p < clips[id].start_time + clips[id].duration
    /\ split_clip(id, p, TRUE)
    /\ ed_ret' = OkId(next_clip_id)

\* C3: the timeline's duration is the maximum end time over all clips, 0
\* when there is none, after any sequence of editing calls
DurationIsMaxEnd == duration = update_duration(clips)

\* C4: a split strictly inside a clip leaves the original as [start, p),
\* creates exactly one new clip [p, end) and grows the clip count by one
SplitPartitions ==
    [][\A id \in ClipIds, p \in Positions :
          SplitAccepted(id, p) =>
            /\ Cardinality(DOMAIN clips') = Cardinality(DOMAIN clips) + 1
            /\ id \in DOMAIN clips'
            /\ clips'[id].start_time = clips[id].start_time
            /\ clips'[id].duration = p - clips[id].start_time
            /\ clips'[id].duration > 0
            /\ \E n \in DOMAIN clips' \ DOMAIN clips :
                  /\ clips'[n].start_time = p
                  /\ clips'[n].duration > 0
                  /\ clips'[id].duration + clips'[n].duration
                        = clips[id].duration
    ]_vars

\* C5: after a split at p the original clip keeps its in_point and the
\* clip under the returned id has in_point + (p - start_time)
SplitInPoints ==
    [][\A id \in ClipIds, p \in Positions :
          SplitAccepted(id, p) =>
            /\ id \in DOMAIN clips'
            /\ clips'[id].in_point = clips[id].in_point
            /\ next_clip_id \in DOMAIN clips'
            /\ clips'[next_clip_id].in_point
                  = clips[id].in_point + (p - clips[id].start_time)
    ]_vars

\* ------------------------------------------------------------------------
\* Properties of the engine Timeline
\* ------------------------------------------------------------------------
\* two half-open intervals [start_time, start_time + duration) intersect
Intersect(a, b) ==
    a.start_time < end_time(b) /\ b.start_time < end_time(a)

\* C1: no two clips of the same type on one track have intersecting
\* half-open intervals, after any sequence of accepted and rejected calls
NoOverlap ==
    \A t \in DOMAIN tracks :
        \A i, j \in 1..Len(tracks[t].clips) :
            (i < j /\ tracks[t].clips[i].clip_type = tracks[t].clips[j].clip_type)
                => ~Intersect(tracks[t].clips[i], tracks[t].clips[j])

\* C2: add_clip on a track returns OperationError exactly when the new
\* clip's interval intersects that of an existing clip of the same type,
\* and a rejected call leaves the track's clip list unchanged
AddClipRejectsIffOverlap ==
    [][\A t \in TrTrackIds, c \in TrackClipInputs :
          (t \in DOMAIN tracks /\ add_clip_to_track(t, c)) =>
            /\ tl_ret'.status = "OperationError"
                 <=> \E i \in 1..Len(tracks[t].clips) :
                        /\ tracks[t].clips[i].clip_type = c.clip_type
                        /\ Intersect(tracks[t].clips[i], c)
            /\ tl_ret'.status = "OperationError" => tracks' = tracks
    ]_vars

\* C23: remove_track with an unknown id returns InvalidTrack and leaves the
\* tracks unchanged; with a known id it removes exactly that track and
\* leaves every other track, its clips included, unchanged
RemoveTrackContract ==
    [][pl_op' = "remove_track" => \A t \in TrackIds :
          remove_track(t) =>
            IF t \in DOMAIN tracks
            THEN /\ tl_ret'.status = "Ok"
                 /\ DOMAIN tracks' = DOMAIN tracks \ {t}
                 /\ \A u \in DOMAIN tracks' : tracks'[u] = tracks[u]
            ELSE /\ tl_ret'.status = "InvalidTrack"
                 /\ tracks' = tracks
    ]_vars

\* remove_track has removed one track while another, holding clips, stays
RemoveTrackWitness ==
    /\ pl_op = "remove_track"
    /\ tl_ret.kind = "track"
    /\ \E u \in DOMAIN tracks : Len(tracks[u].clips) > 0

\* the clip is in the list active_clips returns for its track
InActive(t, c) ==
    /\ t \in DOMAIN active_clips
    /\ \E k \in 1..Len(active_clips[t]) : active_clips[t][k] = c

\* C6: active_clips contains a clip exactly when
\* start_time <= t < start_time + duration and its track is not muted
ActiveClipsExact ==
    /\ \A t \in DOMAIN tracks :
          \A i \in 1..Len(tracks[t].clips) :
              LET c == tracks[t].clips[i]
              IN InActive(t, c) <=>
                    /\ c.start_time <= current_time
                    /\ current_time < c.start_time + c.duration
                    /\ ~tracks[t].is_muted
    /\ \A t \in DOMAIN active_clips :
          /\ t \in DOMAIN tracks
          /\ \A k \in 1..Len(active_clips[t]) :
                \E i \in 1..Len(tracks[t].clips) :
                    tracks[t].clips[i] = active_clips[t][k]

\* an unmuted track with a clip starting at the queried time (returned) and
\* a clip ending at it (not returned), and a muted track with a clip
\* around the queried time (not returned)
ActiveClipsWitness ==
    \E t, u \in DOMAIN tracks :
        /\ ~tracks[t].is_muted
        /\ tracks[u].is_muted
        /\ \E i, j \in 1..Len(tracks[t].clips) :
              /\ tracks[t].clips[i].start_time = current_time
              /\ InActive(t, tracks[t].clips[i])
              /\ end_time(tracks[t].clips[j]) = current_time
              /\ ~InActive(t, tracks[t].clips[j])
        /\ \E i \in 1..Len(tracks[u].clips) :
              /\ contains_time(tracks[u].clips[i], current_time)
              /\ ~InActive(u, tracks[u].clips[i])

\* two clips of one type whose intervals [st, st + d) intersect
WouldOverlap(m, id, st, d) ==
    \E o \in DOMAIN m \ {id} :
        /\ m[o].track_type = m[id].track_type
        /\ st < clip_end(m[o])
        /\ m[o].start_time < st + d

\* C11: a move_clip or trim_clip that would make the clip overlap another
\* clip of its type, or whose start is negative or duration not positive,
\* returns an error and leaves every clip and the timeline duration as
\* they were
MoveTrimValidated ==
    [][\A id \in DOMAIN clips :
          /\ \A t \in StartTimes :
                (/\ ed_op' = "move_clip"
                 /\ move_clip(id, t)
                 /\ t < 0 \/ WouldOverlap(clips, id, t, clips[id].duration))
                => (ed_ret'.status # "Ok" /\ clips' = clips
                                          /\ duration' = duration)
          /\ \A d \in TrimDurations :
                (/\ ed_op' = "trim_clip"
                 /\ trim_clip(id, d)
                 /\ d <= 0 \/ WouldOverlap(clips, id, clips[id].start_time, d))
                => (ed_ret'.status # "Ok" /\ clips' = clips
                                          /\ duration' = duration)
    ]_vars

\* a split_clip call on a known clip at a position not strictly inside it
SplitOutside(id, p) ==
    /\ p <= clips[id].start_time \/ p >= clip_end(clips[id])
    /\ \E ok \in BOOLEAN : split_clip(id, p, ok)

\* what such a call leaves alone: no clip is created, the clip keeps its
\* duration and in_point
SplitLeftAlone(id) ==
    /\ DOMAIN clips' = DOMAIN clips
    /\ clips'[id].duration = clips[id].duration
    /\ clips'[id].in_point = clips[id].in_point

\* C12 as stated: split_clip at a position <= start_time or >= end_time
\* fails with InvalidTime, creates no clip and leaves the clip's duration
\* and in_point unchanged
SplitOutsideInvalidTime ==
    [][ed_op' = "split_clip" => \A id \in DOMAIN clips, p \in Positions :
          SplitOutside(id, p) =>
              (ed_ret'.status = "InvalidTime" /\ SplitLeftAlone(id))
    ]_vars

\* C12 as amended: split_clip at a position <= start_time or >= end_time
\* fails with InvalidParameter, creates no clip and leaves the clip's
\* duration and in_point unchanged
SplitOutsideRejected ==
    [][ed_op' = "split_clip" => \A id \in DOMAIN clips, p \in Positions :
          SplitOutside(id, p) =>
              (ed_ret'.status = "InvalidParameter" /\ SplitLeftAlone(id))
    ]_vars

\* a split_clip of the only clip, [0, MaxEnd), was rejected for its
\* position: the position was 0 or MaxEnd, one of the clip's boundaries
SplitOutsideWitness ==
    /\ ed_op = "split_clip"
    /\ ed_ret = ErrBounds
    /\ DOMAIN clips = {0}
    /\ clips[0].start_time = 0
    /\ clip_end(clips[0]) = MaxEnd

\* C13: trim_clip with new_duration <= 0 returns an error and the clip
\* keeps its duration; no clip ever has a duration <= 0
TrimKeepsPositive ==
    [][/\ \A id \in DOMAIN clips, d \in TrimDurations :
             (ed_op' = "trim_clip" /\ trim_clip(id, d) /\ d <= 0)
             => (/\ ed_ret'.status # "Ok"
                 /\ clips'[id].duration = clips[id].duration)
       /\ \A id \in DOMAIN clips' : clips'[id].duration > 0
    ]_vars

\* every clip but this one is present and unchanged
OthersUnchanged(id) ==
    \A o \in DOMAIN clips \ {id} : o \in DOMAIN clips' /\ clips'[o] = clips[o]

\* C14: a successful move_clip(id, t) sets the clip's start_time to t and
\* leaves its duration, in_point, type and effects, and every other clip,
\* unchanged
MoveChangesOnlyStart ==
    [][ed_op' = "move_clip" => \A id \in DOMAIN clips, t \in StartTimes :
          (move_clip(id, t) /\ ed_ret'.status = "Ok")
          => /\ DOMAIN clips' = DOMAIN clips
             /\ clips'[id].start_time = t
             /\ clips'[id].duration = clips[id].duration
             /\ clips'[id].in_point = clips[id].in_point
             /\ clips'[id].track_type = clips[id].track_type
             /\ clips'[id].effects = clips[id].effects
             /\ OthersUnchanged(id)
    ]_vars

\* a move_clip succeeded on a timeline of two clips, one of which has an
\* effect and a nonzero in_point
MoveWitness ==
    /\ ed_op = "move_clip"
    /\ ed_ret = OkUnit
    /\ Cardinality(DOMAIN clips) = 2
    /\ \E id \in DOMAIN clips :
          clips[id].effects # <<>> /\ clips[id].in_point > 0

DurationIsMaxEndAfter ==
    /\ \A o \in DOMAIN clips' : clip_end(clips'[o]) <= duration'
    /\ IF clips' = <<>> THEN duration' = 0
       ELSE \E o \in DOMAIN clips' : clip_end(clips'[o]) = duration'

\* remove_clip of a known id took the clip out
RemovedExactly(id) ==
    /\ ed_ret'.status = "Ok"
    /\ DOMAIN clips' = DOMAIN clips \ {id}
    /\ OthersUnchanged(id)
    /\ DurationIsMaxEndAfter

SeekContract ==
    [][\A time \in SeekTimes :
          (pl_op' = "seek" /\ seek(time))
          => IF time < 0 \/ time > config_duration
             THEN tl_ret'.status = "InvalidTime" /\ current_time' = current_time
             ELSE tl_ret'.status = "Ok" /\ current_time' = time
    ]_vars

\* a seek to the end of a timeline whose duration was changed succeeded
SeekWitness ==
    /\ pl_op = "seek"
    /\ tl_ret = OkUnit
    /\ current_time = config_duration
    /\ config_duration < MaxTime

\* C18: update() while playing advances the position by the clock time
\* elapsed since the previous update() or play() times the playback speed,
\* and while paused leaves it unchanged; when the advanced position reaches
\* or exceeds the duration the position becomes the duration and is_playing
\* false
UpdateAdvances ==
    [][(pl_op' = "update" /\ update)
       => IF is_playing
          THEN LET target == current_time + (now - pl_ref) * playback_speed
               IN IF target >= config_duration
                  THEN current_time' = config_duration /\ ~is_playing'
                  ELSE current_time' = target /\ is_playing'
          ELSE current_time' = current_time /\ ~is_playing'
    ]_vars

\* an update() some time after the clock started advanced the position at
\* speed 2 and did not reach the end
UpdateWitness ==
    /\ pl_op = "update"
    /\ is_playing
    /\ playback_speed = 2
    /\ pl_ref > 1
    /\ current_time = 2
    /\ current_time < config_duration

\* ------------------------------------------------------------------------
\* Properties of the TimelineRenderer
\* ------------------------------------------------------------------------
\* a render_frame call in progress that repeats the previous call: same
\* time, nothing called in between
RepeatCall ==
    /\ rd_pc # "idle"
    /\ rd_unchanged
    /\ rd_ret.kind = "frame"
    /\ rd_ret.time = rd_time

\* C7: a render_frame(t) that directly repeats a render_frame(t) makes no
\* seek and no decode and returns the identical frame
RepeatedRenderIsCached ==
    [][RepeatCall =>
          /\ rd_pc \notin {"seek", "decode"}
          /\ rd_pc' \notin {"seek", "decode"}
          /\ rd_pc' = "idle" => rd_ret' = rd_ret
    ]_vars

\* the frame holds a layer of this clip
InLayers(clip_id, layers) == \E i \in 1..Len(layers) : layers[i].clip = clip_id

\* C19: when a track's mute flag changed after render_frame(t) returned a
\* frame, the frame the next render_frame(t) returns is not the one from
\* before the change: a video clip active at t that has a ClipRenderer is in
\* it if its track was unmuted and is not in it if its track was muted
MuteChangeShows ==
    [][(render_frame_end /\ rd_ret.kind = "frame" /\ rd_ret.time = rd_time)
       => \A t \in rd_flipped \cap DOMAIN tracks :
             \A i \in 1..Len(tracks[t].clips) :
                LET c == tracks[t].clips[i]
                IN (/\ c.clip_type = "Video"
                    /\ c.id \in DOMAIN clip_renderers
                    /\ contains_time(c, rd_time))
                   => (InLayers(c.id, rd_ret'.layers) <=> ~tracks[t].is_muted)
    ]_vars

\* C20: ClipRenderer's seek for timeline time t and clip start s computes
\* source_time = in_point + (t - s); when source_time is outside
\* [in_point, in_point + duration) it fails and the decoder keeps its
\* position, otherwise a seek that succeeds leaves the decoder at exactly source_time
ClipSeekGuarded ==
    [][\A t \in TimelineTimes, s \in TimelineTimes :
          (cr_op' = "seek_to_time" /\ \E ok \in BOOLEAN : seek_to_time(t, s, ok))
          => LET source_time == cr_in_point + (t - s)
             IN IF source_time < cr_in_point \/ source_time >= cr_out_point
                THEN /\ cr_ret'.status # "Ok"
                     /\ dec_current_position' = dec_current_position
                ELSE cr_ret'.status = "Ok"
                     => dec_current_position' = source_time
    ]_vars

\* every video clip of the timeline that has a source has a ClipRenderer
AllClipsHaveRenderers ==
    \A t \in DOMAIN tracks :
        \A i \in 1..Len(tracks[t].clips) :
            LET c == tracks[t].clips[i]
            IN (c.clip_type = "Video" /\ c.source_path # NoSource)
                  => c.id \in DOMAIN clip_renderers

\* C26: the frame render_frame(t) returns holds exactly the video clips with
\* start_time <= t < end_time on an unmuted track, whatever current_time is
\* (stated for a timeline whose video clips all have a ClipRenderer)
RenderIsAtRequestedTime ==
    [][(render_frame_end /\ AllClipsHaveRenderers) =>
          \A t \in DOMAIN tracks :
              \A i \in 1..Len(tracks[t].clips) :
                  LET c == tracks[t].clips[i]
                  IN c.clip_type = "Video" =>
                        (InLayers(c.id, rd_ret'.layers)
                            <=> (contains_time(c, rd_time) /\ ~tracks[t].is_muted))
    ]_vars

\* the tracks in ascending order, and the place of a clip's track in it
TrackOrder == <<"t1", "t2">>
TrackIndexOf(clip_id) ==
    CHOOSE n \in 1..Len(TrackOrder) :
        /\ TrackOrder[n] \in DOMAIN tracks
        /\ \E i \in 1..Len(tracks[TrackOrder[n]].clips) :
              tracks[TrackOrder[n]].clips[i].id = clip_id

\* C27: the layers of a frame are composited in ascending track order, so
\* that the frame of the later track lies on top
CompositedInTrackOrder ==
    [][render_frame_end =>
          \A i, j \in 1..Len(rd_layers) :
              i < j => TrackIndexOf(rd_layers[i].clip)
                          <= TrackIndexOf(rd_layers[j].clip)
    ]_vars

\* C28: a video clip with a source that render_frame finds active is in the
\* frame it returns and has a ClipRenderer afterwards, also when the clip
\* was added after initialize
LateClipIsRendered ==
    [][render_frame_end =>
          \A t \in DOMAIN active_clips :
              \A k \in 1..Len(active_clips[t]) :
                  LET c == active_clips[t][k]
                  IN (c.clip_type = "Video" /\ c.source_path # NoSource) =>
                        /\ InLayers(c.id, rd_ret'.layers)
                        /\ c.id \in DOMAIN clip_renderers'
    ]_vars

\* C29: when render_frame starts, every ClipRenderer held belongs to a clip
\* of the timeline and is the one built from that clip's source and points
RenderersMatchTimeline ==
    [][(\E time \in RenderTimes : render_frame_begin(time)) =>
          \A id \in DOMAIN clip_renderers :
              \E t \in DOMAIN tracks :
                  \E i \in 1..Len(tracks[t].clips) :
                      /\ tracks[t].clips[i].id = id
                      /\ clip_renderers[id] = ClipRenderer(tracks[t].clips[i])
    ]_vars

\* C30: after a render_frame that returns a rendered frame the cache holds
\* the frame under its time and at most cache_size entries, and an entry
\* that left the cache had the smallest key
RenderedFrameIsCached ==
    [][render_frame_end =>
          /\ rd_time \in DOMAIN frame_cache'
          /\ frame_cache'[rd_time] = rd_ret'
          /\ Cardinality(DOMAIN frame_cache') <= CacheSize
          /\ \A k \in DOMAIN frame_cache \ DOMAIN frame_cache' :
                \A j \in DOMAIN frame_cache : k <= j
    ]_vars

\* C21: close() on a decoder that is not open succeeds and changes nothing;
\* on an open decoder it releases the decode session, a second close()
\* leaves the state of the first, and until the next open() every seek and
\* decode is rejected and changes nothing
CloseIdempotent ==
    [][/\ (cr_op' = "close" /\ ClipRenderer_close) =>
            /\ cr_ret' = CrOk
            /\ ~dec_is_initialized => UNCHANGED dec_fields
            /\ dec_is_initialized =>
                  /\ ~dec_is_initialized'
                  /\ ~dec_format_context'
                  /\ ~dec_video_codec_context'
                  /\ ~dec_audio_codec_context'
                  /\ ~dec_sws_context'
                  /\ dec_media_info' = NoMedia
            /\ close_run' = 2 => UNCHANGED dec_fields
       /\ (cr_op' \in {"seek", "decode"} /\ ~dec_is_initialized) =>
            /\ cr_ret'.status = "DecoderError"
            /\ UNCHANGED dec_fields
       /\ (~dec_is_initialized /\ dec_is_initialized') => cr_op' = "open"
    ]_vars

\* an open decoder has been closed twice in a row
CloseTwiceWitness ==
    /\ cr_op = "close"
    /\ close_run = 2
    /\ ~dec_is_initialized
    /\ ~dec_format_context

\* the decoder is open with a video stream selected and its source has no
\* packet left
SourceExhausted ==
    /\ dec_is_initialized
    /\ dec_current_video_stream >= 0
    /\ dec_video_codec_context
    /\ dec_format_context
    /\ dec_cursor >= dec_media_info

\* C22: a decode on an exhausted source does not return an error: what it
\* returns is not the DecodingError that a failed decode returns
EndOfStreamIsNoError ==
    [][(cr_op' = "decode" /\ SourceExhausted) =>
          /\ cr_ret'.status # "DecoderError"
          /\ cr_ret'.error # "DecodingError"
    ]_vars

\* the time is outside the bounds of the open decoder's media
OutsideMedia(t) == dec_is_initialized /\ (t < 0 \/ t > dec_media_info)

\* C24 as stated: a seek outside the media bounds fails with InvalidTime and
\* leaves the position and the decode state unchanged; a seek that succeeds
\* sets the position to the time
DecoderSeekInvalidTime ==
    [][cr_op' = "seek" => \A t \in DecoderSeekTimes, ok \in BOOLEAN :
          decoder_seek(t, ok) =>
            /\ OutsideMedia(t) =>
                  /\ cr_ret'.error = "InvalidTime"
                  /\ UNCHANGED dec_fields
            /\ cr_ret' = CrOk => dec_current_position' = t
    ]_vars

\* C24: on an open decoder a seek outside the media bounds fails with
\* DecodingError and leaves the position and the decode state unchanged; a
\* seek that succeeds sets the position to the time
DecoderSeekContract ==
    [][cr_op' = "seek" => \A t \in DecoderSeekTimes, ok \in BOOLEAN :
          decoder_seek(t, ok) =>
            /\ OutsideMedia(t) =>
                  /\ cr_ret' = CrErr("DecodingError")
                  /\ UNCHANGED dec_fields
            /\ cr_ret' = CrOk => dec_current_position' = t
    ]_vars

\* a seek outside the bounds was rejected by a decoder that an earlier seek
\* had moved
DecoderSeekWitness ==
    /\ cr_op = "seek"
    /\ cr_ret = CrErr("DecodingError")
    /\ dec_is_initialized
    /\ dec_current_position > 0

\* the index is not among the indexes 0..len-1 of the streams of this medium
OutOfRange(i, medium) == i < 0 \/ i >= stream_count(dec_streams, medium)

\* C25: on an open decoder, select_stream with the index of the active
\* stream succeeds and changes nothing, and with any other index that is
\* out of range it fails with InvalidParameter and changes nothing
SelectStreamContract ==
    [][/\ cr_op' = "select_video_stream" =>
            \A i \in StreamIndexes, cv \in BOOLEAN, f \in SelectFailures \cup {"none"} :
                (dec_is_initialized /\ select_video_stream(i, cv, f)) =>
                    IF i >= 0 /\ i = dec_current_video_stream
                    THEN cr_ret' = CrOk /\ UNCHANGED dec_fields
                    ELSE OutOfRange(i, "V") =>
                            /\ cr_ret' = CrErr("InvalidParameter")
                            /\ UNCHANGED dec_fields
       /\ cr_op' = "select_audio_stream" =>
            \A i \in StreamIndexes, f \in {"codec", "none"} :
                (dec_is_initialized /\ select_audio_stream(i, f)) =>
                    IF i >= 0 /\ i = dec_current_audio_stream
                    THEN cr_ret' = CrOk /\ UNCHANGED dec_fields
                    ELSE OutOfRange(i, "A") =>
                            /\ cr_ret' = CrErr("InvalidParameter")
                            /\ UNCHANGED dec_fields
    ]_vars

\* C9: the timeline mutex is not held while a ClipRenderer seek or decode
\* of render_frame runs
LockFreeDuringDecode ==
    rd_pc \in {"seek", "decode"} => timeline_lock = "free"

\* C10: a failed seek or decode of one clip skips that layer: render_frame
\* goes on with the layers composited so far and returns no error for it
LayerFailureIsSkipped ==
    [][(render_frame_seek(FALSE) \/ render_frame_decode(FALSE)) =>
          /\ rd_pc' = "layers"
          /\ rd_layers' = rd_layers
          /\ rd_ret' = rd_ret
    ]_vars

\* C36: the id a successful add_clip or split_clip returns is the id of no
\* clip already in the timeline: every clip present before the call is still
\* present and unchanged apart from the clip a split shortens, and the clip
\* count has grown by exactly one
FreshClipIds ==
    [][(ed_op' \in {"add_clip", "split_clip"} /\ ed_ret'.status = "Ok") =>
          /\ ed_ret'.id \notin DOMAIN clips
          /\ DOMAIN clips \subseteq DOMAIN clips'
          /\ Cardinality(DOMAIN clips') = Cardinality(DOMAIN clips) + 1]_vars

\* C38: a decoder with is_initialized = false holds no decode resource: no
\* format context, no video or audio codec context, no scaler and no media
\* info, also after an open() that failed partway; and close() always leaves
\* the decoder holding nothing
HoldsNothing ==
    /\ ~dec_format_context
    /\ ~dec_video_codec_context
    /\ ~dec_audio_codec_context
    /\ ~dec_sws_context
    /\ dec_media_info = NoMedia
ClosedDecoderHoldsNothing ==
    /\ [](~dec_is_initialized => HoldsNothing)
    /\ [][cr_op' = "close" => HoldsNothing']_vars

\* C39: after seek returns, with Ok or with an error, is_seeking is false
\* (is_decoding is cleared by the DecodeGuard of decode_video_frame on every
\* return and is not a variable of the model)
SeekingFlagIsCleared ==
    [][(cr_op' = "seek" /\ cr_ret' # CrPanic) => ~dec_is_seeking']_vars

\* C34: an initialize in which the source of one clip cannot be opened does
\* not fail as a whole: it returns Ok and the TimelineRenderer is initialized
InitializeSurvivesOpenFailure ==
    [][rd_ret'.status # "Ok" =>
          \A o \in Orders(DOMAIN tracks), k \in 1..MaxTrackClips :
             initialize(TRUE, o, k) => (rd_ret' = RdOk /\ is_initialized')]_vars

\* C37: after every seek, play, pause, set_playback_speed, set_duration and
\* update call 0 <= current_time <= duration holds
PlaybackCalls ==
    {"seek", "play", "pause", "set_playback_speed", "set_duration", "update"}
PositionWithinDuration ==
    [][pl_op' \in PlaybackCalls =>
          (0 <= current_time' /\ current_time' <= config_duration')]_vars

\* C35: a playing timeline whose update is polled while the clock advances
\* reaches current_time = duration with is_playing false, unless the caller
\* makes another call first; and an update of a timeline that is not playing
\* leaves the position where it is
Polled == pl_op \in {"update", "update to the end"}
PlaybackEnded == ~is_playing /\ current_time = config_duration
PlaybackReachesEnd ==
    /\ (is_playing /\ Polled) ~> (PlaybackEnded \/ ~Polled)
    /\ [][(Polled' /\ ~is_playing) => current_time' = current_time]_vars
PlaybackEndWitness ==
    /\ pl_op = "update to the end"
    /\ PlaybackEnded
    /\ playback_speed > 0

\* C31: the buffer render_frame composites onto has width * height pixels
\* and every pixel of it starts as the configured background color
Pixels == 0..(config_width * config_height - 1)
Pixel(data, p) == <<data[4 * p + 1], data[4 * p + 2], data[4 * p + 3],
                    data[4 * p + 4]>>
BufferIsBackground ==
    [][px_op' = "render_frame_buffer" =>
          /\ Len(frame_data') = config_width * config_height * 4
          /\ \A p \in Pixels : Pixel(frame_data', p) = background_color]_vars

\* C32: compositing an input pixel with alpha a onto an output pixel gives,
\* in each colour channel, the value of (1 - a/255) * out + (a/255) * in (a
\* byte less than 1 away from it), the input colour when a = 255 and the
\* output colour when a = 0, always within 0..255, and the output alpha 255.
\* Stated for an input of the size of the output, where every input pixel
\* meets the output pixel of the same place.
IsBlendOf(result, in_alpha, output, input) ==
    LET exact_times_255 == (255 - in_alpha) * output + in_alpha * input
    IN /\ result \in 0..255
       /\ 255 * result - exact_times_255 < 255
       /\ exact_times_255 - 255 * result < 255
       /\ in_alpha = 255 => result = input
       /\ in_alpha = 0 => result = output
BlendContract ==
    [][(/\ px_op' = "composite_frame"
        /\ px_input'.width = config_width
        /\ px_input'.height = config_height) =>
          \A p \in Pixels :
             LET out == Pixel(frame_data, p)
                 in == Pixel(px_input'.data, p)
                 result == Pixel(frame_data', p)
             IN /\ result[4] = 255
                /\ \A ch \in 1..3 :
                      IsBlendOf(result[ch], in[4], out[ch], in[ch])]_vars

\* C33: composite_frame places the input centered in the output and clipped
\* to it: an output pixel outside the centered rectangle keeps its bytes, an
\* output pixel inside it is blended with the input pixel of the same place
\* in the centered part of the input, and the buffer keeps its length
CenterOffset(outer, inner) ==
    IF outer > inner THEN (outer - inner) \div 2 ELSE 0
CompositeIsCentered ==
    [][px_op' = "composite_frame" =>
          LET input == px_input'
              left == CenterOffset(config_width, input.width)
              top == CenterOffset(config_height, input.height)
              crop_left == CenterOffset(input.width, config_width)
              crop_top == CenterOffset(input.height, config_height)
              column(p) == p % config_width
              row(p) == p \div config_width
              inside(p) ==
                  /\ column(p) >= left
                  /\ column(p) < left + Min(input.width, config_width)
                  /\ row(p) >= top
                  /\ row(p) < top + Min(input.height, config_height)
              source(p) == (row(p) - top + crop_top) * input.width
                              + (column(p) - left + crop_left)
              blended(out, in) ==
                  <<blend(in[4], out[1], in[1]), blend(in[4], out[2], in[2]),
                    blend(in[4], out[3], in[3]), 255>>
          IN /\ Len(frame_data') = Len(frame_data)
             /\ \A p \in Pixels :
                   Pixel(frame_data', p) =
                      IF inside(p)
                      THEN blended(Pixel(frame_data, p),
                                   Pixel(input.data, source(p)))
                      ELSE Pixel(frame_data, p)]_vars

====
